---------------------------- MODULE Spec2Model ----------------------------
(***************************************************************************)
(* The RPC server of nkd-hd/cloud-computing (rpc-server/server.js, and the *)
(* identical transport of server/src/server.js), with protocol.js and the  *)
(* clients that talk to it (load_test.js, the stub of route.ts).           *)
(*                                                                         *)
(* A connection carries bytes.  The client pushes encoded frames into      *)
(* inflight[c]; TCP hands the server any non-empty prefix of it as one     *)
(* 'data' chunk.  The 'data' handler decodes the chunk, splits the buffer  *)
(* at newlines, parses, authenticates and enqueues; processQueue is the    *)
(* async worker, suspended at the latency timer and at the audit write.    *)
(***************************************************************************)
EXTENDS Integers, Sequences, FiniteSets

\* ------------------------------------------------------------- bounds
NumConns == 2
MaxSends == 3
MaxIdlePeriods == 2
MaxStringLen == 2
BurstSize == 101

\* ------------------------------------------------- program constants
LATENCY_MS == 50
TIMEOUT_MS == 5000
IDLE_TIMEOUT_MS == 30000
AUTH_TOKEN == "SECRET_123"

Conns == 1..NumConns

\* ---------------------------------------------------------- alphabet
\* Bytes on the wire.  "L" "C" are the lead and continuation byte of one
\* two-byte UTF-8 character; everything else is one ASCII byte.
KindChars == {"P", "B", "A", "F", "D", "U", "N", "T", "W", "M", "H"}
Digits == {"0", "1", "2", "3", "4", "5", "6", "7", "8", "9"}
\* Characters of a decoded string: "E" is the two-byte character, "X" is
\* U+FFFD, the replacement character, "n" the letter n.  "BS" is the
\* backslash and "NL" the newline; inside the text of a JSON string they
\* appear only as escape sequences.
IdChars == Digits \cup {"E", "X", "n"}

NullId == <<>>

\* Buffer.toString(): UTF-8 decoding of ONE chunk.  A lead byte without its
\* continuation byte, and a continuation byte without its lead byte, each
\* decode to U+FFFD.
RECURSIVE toString(_)
toString(bytes) ==
    IF bytes = <<>> THEN <<>>
    ELSE IF Head(bytes) = "L"
         THEN IF Len(bytes) >= 2 /\ bytes[2] = "C"
              THEN <<"E">> \o toString(SubSeq(bytes, 3, Len(bytes)))
              ELSE <<"X">> \o toString(Tail(bytes))
         ELSE IF Head(bytes) = "C"
              THEN <<"X">> \o toString(Tail(bytes))
              ELSE <<Head(bytes)>> \o toString(Tail(bytes))

\* String.prototype.split('\n'): the pieces between newlines, always at
\* least one piece (the last one is what follows the last newline).
RECURSIVE SplitNL(_, _)
SplitNL(s, cur) ==
    IF s = <<>> THEN <<cur>>
    ELSE IF Head(s) = "NL"
         THEN <<cur>> \o SplitNL(Tail(s), <<>>)
         ELSE SplitNL(Tail(s), Append(cur, Head(s)))

Split(s) == SplitNL(s, <<>>)

\* messages.pop(): the last element and the array without it.
Last(seq) == seq[Len(seq)]
Front(seq) == SubSeq(seq, 1, Len(seq) - 1)

\* String.prototype.trim()
RECURSIVE TrimLeft(_)
TrimLeft(s) ==
    IF s # <<>> /\ Head(s) = "SP" THEN TrimLeft(Tail(s)) ELSE s

RECURSIVE TrimRight(_)
TrimRight(s) ==
    IF s # <<>> /\ Last(s) = "SP" THEN TrimRight(Front(s)) ELSE s

Trim(s) == TrimRight(TrimLeft(s))

\* ------------------------------------------------------------- PDUs
\* The JSON text of a request is abstracted to one kind character, which
\* stands for everything but the request_id, followed by the characters of
\* the request_id string (none: the header has no request_id).
NoBody == [defined |-> FALSE, filename |-> "", content |-> <<>>]
FileBody == [defined |-> TRUE, filename |-> "a.txt", content |-> <<"h", "i">>]
EmptyBody == [defined |-> TRUE, filename |-> "", content |-> <<>>]

KindHeader(k) ==
    CASE k = "P" -> [hasHeader |-> TRUE, auth_token |-> AUTH_TOKEN, method |-> "PING"]
      [] k = "B" -> [hasHeader |-> TRUE, auth_token |-> AUTH_TOKEN, method |-> "CHECK_BALANCE"]
      [] k = "A" -> [hasHeader |-> TRUE, auth_token |-> AUTH_TOKEN, method |-> "CHECK_BALANCE"]
      [] k = "F" -> [hasHeader |-> TRUE, auth_token |-> AUTH_TOKEN, method |-> "LIST_FILES"]
      [] k = "D" -> [hasHeader |-> TRUE, auth_token |-> AUTH_TOKEN, method |-> "DELETE_FILE"]
      [] k = "U" -> [hasHeader |-> TRUE, auth_token |-> AUTH_TOKEN, method |-> "UPLOAD_FILE"]
      [] k = "N" -> [hasHeader |-> TRUE, auth_token |-> AUTH_TOKEN, method |-> "NOPE"]
      [] k = "T" -> [hasHeader |-> TRUE, auth_token |-> AUTH_TOKEN, method |-> "UPLOAD_FILE"]
      [] k = "W" -> [hasHeader |-> TRUE, auth_token |-> "WRONG", method |-> "PING"]
      [] k = "M" -> [hasHeader |-> TRUE, auth_token |-> "undefined", method |-> "PING"]
      [] k = "H" -> [hasHeader |-> FALSE, auth_token |-> "undefined", method |-> "undefined"]

KindBody(k) ==
    CASE k = "U" -> FileBody
      [] k = "T" -> NoBody
      [] k = "A" -> NoBody
      [] OTHER -> EmptyBody

Pdu(k, rid) ==
    [header |-> KindHeader(k), request_id |-> rid, body |-> KindBody(k)]

NoMessage == Pdu("H", NullId)

\* A serialization that writes every character as it is.
RECURSIVE EscapeNothing(_)
EscapeNothing(s) ==
    IF s = <<>> THEN <<>> ELSE <<Head(s)>> \o EscapeNothing(Tail(s))

\* JSON.stringify of a string value: a newline becomes the two characters
\* backslash n, a backslash becomes two backslashes.
RECURSIVE Escape(_)
Escape(s) ==
    IF s = <<>> THEN <<>>
    ELSE (CASE Head(s) = "NL" -> <<"BS", "n">>
            [] Head(s) = "BS" -> <<"BS", "BS">>
            [] OTHER -> <<Head(s)>>)
         \o Escape(Tail(s))

\* JSON.parse of the text of a string value: escape sequences are resolved;
\* a backslash that starts no escape sequence, and a character that cannot
\* stand in a string (a raw newline, whitespace of the frame), is a
\* syntax error.
RECURSIVE Unescape(_, _)
Unescape(t, value) ==
    IF t = <<>> THEN [ok |-> TRUE, value |-> value]
    ELSE IF Head(t) = "BS"
         THEN IF Len(t) >= 2 /\ t[2] = "n"
              THEN Unescape(SubSeq(t, 3, Len(t)), Append(value, "NL"))
              ELSE IF Len(t) >= 2 /\ t[2] = "BS"
              THEN Unescape(SubSeq(t, 3, Len(t)), Append(value, "BS"))
              ELSE [ok |-> FALSE, value |-> <<>>]
         ELSE IF Head(t) \in IdChars
              THEN Unescape(Tail(t), Append(value, Head(t)))
              ELSE [ok |-> FALSE, value |-> <<>>]

\* The UTF-8 encoding of a string written to a socket: the two-byte
\* character is written as its two bytes.
RECURSIVE Utf8(_)
Utf8(s) ==
    IF s = <<>> THEN <<>>
    ELSE (IF Head(s) = "E" THEN <<"L", "C">> ELSE <<Head(s)>>)
         \o Utf8(Tail(s))

\* The bytes of the serialized request_id string.
EncodeId(rid) == Utf8(Escape(rid))

\* createMessage / the clients' JSON.stringify(pdu) + '\n'
createMessage(k, rid) == <<k>> \o EncodeId(rid) \o <<"NL">>

\* parseMessage: JSON.parse(rawData.toString().trim()), throwing on text
\* that is not JSON.
parseMessage(rawData) ==
    LET t == Trim(rawData) IN
    IF /\ t # <<>>
       /\ Head(t) \in KindChars
       /\ Unescape(Tail(t), <<>>).ok
    THEN [ok |-> TRUE, message |-> Pdu(Head(t), Unescape(Tail(t), <<>>).value)]
    ELSE [ok |-> FALSE, message |-> NoMessage]

\* createResponse(status, result, requestId = null)
createResponse(status, result, requestId) ==
    [status |-> status, result |-> result, request_id |-> requestId]

\* A result value: the message text, the name it mentions (a method or a
\* file), and the size field of an upload acknowledgement.
Result(text, name, size) == [message |-> text, name |-> name, size |-> size]


\* ------------------------------------------------------------- state
VARIABLES
    processingQueue,  \* server.js: const processingQueue = []
    isProcessing,     \* server.js: let isProcessing = false
    stats,            \* server.js: stats.totalProcessed, stats.totalErrors
    workers,          \* the processQueue invocations suspended at an await
    immediates,       \* pending setImmediate(processQueue) callbacks
    buffer,           \* per connection: let buffer = ''
    sock,             \* per connection: "none", "open", "ended", "destroyed"
    wire,             \* per connection: the responses written to the socket
    writeFailed,      \* per connection: writes attempted after socket.end()
    inflight,         \* per connection: bytes sent by the client, not yet read
    received,         \* per connection: every byte the server has read
    extracted,        \* per connection: every raw message split off so far
    sends,            \* frames sent by all clients
    sentTo,           \* sentTo[n]: the connection the n-th frame was sent on
    enqueued,         \* Jobs pushed so far (the next Job gets enqueued + 1)
    started,          \* ids of the Jobs dequeued, in dequeue order
    finished,         \* ids of the Jobs whose processQueue call completed
    auditLog,         \* the audit records the sink has stored
    now,              \* the clock, in milliseconds
    clientDue,        \* per connection: when the client's timeout fires
    idle,             \* per connection: socket.setTimeout, when it was armed
                      \* (accept) and when it is due
    stub              \* per connection: the sendToRpcServer call of its client

vars == <<processingQueue, isProcessing, stats, workers, immediates, buffer,
          sock, wire, writeFailed, inflight, received, extracted, sends,
          sentTo, enqueued, started, finished, auditLog, now, clientDue,
          idle, stub>>

\* route.ts, sendToRpcServer: the state of one call.  No call is made on a
\* connection of another client (the load test, a raw socket).
NoResponse == [status |-> "", result |-> "", request_id |-> <<>>]
NoCall ==
    [state |-> "none", timer |-> FALSE, responseBuffer |-> <<>>, read |-> 0,
     error |-> "", response |-> NoResponse]

\* The state after construction, for the connections of Slots: nothing is
\* queued, nobody is connected.
InitFor(Slots) ==
    /\ processingQueue = <<>>
    /\ isProcessing = FALSE
    /\ stats = [totalProcessed |-> 0, totalErrors |-> 0]
    /\ workers = {}
    /\ immediates = 0
    /\ buffer = [c \in Slots |-> <<>>]
    /\ sock = [c \in Slots |-> "none"]
    /\ wire = [c \in Slots |-> <<>>]
    /\ writeFailed = [c \in Slots |-> 0]
    /\ inflight = [c \in Slots |-> <<>>]
    /\ received = [c \in Slots |-> <<>>]
    /\ extracted = [c \in Slots |-> <<>>]
    /\ sends = 0
    /\ sentTo = <<>>
    /\ enqueued = 0
    /\ started = <<>>
    /\ finished = <<>>
    /\ auditLog = <<>>
    /\ now = 0
    /\ clientDue = [c \in Slots |-> 0]
    /\ idle = [c \in Slots |-> [acceptedAt |-> 0, due |-> 0]]
    /\ stub = [c \in Slots |-> NoCall]

Init == InitFor(Conns)

\* --------------------------------------------------- the dispatcher
\* What the synchronous code of a handler reads and writes: the shared
\* queue state and the one connection the handler belongs to.
Snapshot(c) ==
    [queue |-> processingQueue, busy |-> isProcessing, workers |-> workers,
     started |-> started, enqueued |-> enqueued,
     errors |-> stats.totalErrors, processed |-> stats.totalProcessed,
     sock |-> sock[c], wire |-> wire[c], writeFailed |-> writeFailed[c]]

\* The guard without its busy test.
QueueGuardNoBusy(busy, queue) == Len(queue) = 0

\* processQueue, line 93: the guard.
QueueGuard(busy, queue) == busy \/ Len(queue) = 0

\* pop() where shift() is meant: the newest Job is taken.
Pop(queue) == [job |-> Last(queue), rest |-> Front(queue)]

\* A dequeue that passes over the oldest Job when another one waits.
ShiftSecond(queue) ==
    IF Len(queue) >= 2
    THEN [job |-> queue[2], rest |-> <<queue[1]>> \o SubSeq(queue, 3, Len(queue))]
    ELSE [job |-> Head(queue), rest |-> Tail(queue)]

\* processQueue, line 100: processingQueue.shift(), the Job taken and the
\* queue that is left.
Shift(queue) == [job |-> Head(queue), rest |-> Tail(queue)]

\* A processQueue that raises the busy flag before it looks at the queue.
processQueueStartLatches(st) ==
    IF st.busy THEN st
    ELSE IF Len(st.queue) = 0 THEN [st EXCEPT !.busy = TRUE]
    ELSE LET job == Shift(st.queue).job IN
         [st EXCEPT !.busy = TRUE,
                    !.queue = Shift(st.queue).rest,
                    !.started = Append(st.started, job.id),
                    !.workers = st.workers \cup
                        {[job |-> job, pc |-> "latency", due |-> now + LATENCY_MS]}]

\* processQueue, lines 93-110: from the call to the first await.
processQueueStart(st) ==
    IF QueueGuard(st.busy, st.queue) THEN st
    ELSE LET job == Shift(st.queue).job IN
         [st EXCEPT !.busy = TRUE,
                    !.queue = Shift(st.queue).rest,
                    !.started = Append(st.started, job.id),
                    !.workers = st.workers \cup
                        {[job |-> job, pc |-> "latency", due |-> now + LATENCY_MS]}]

\* socket.setTimeout is Node's inactivity timer: every read and every write
\* on the socket re-arms it for another full period.
Refresh(timer) == [timer EXCEPT !.due = now + IDLE_TIMEOUT_MS]

\* socket.write(response): the response reaches the peer while the write
\* side is open; after socket.end() the write fails (write after end).
SocketWrite(st, response) ==
    IF st.sock = "open"
    THEN [st EXCEPT !.wire = Append(st.wire, response)]
    ELSE [st EXCEPT !.writeFailed = st.writeFailed + 1]

\* socket.end(): half-close, the write side is finished.
SocketEnd(st) ==
    IF st.sock = "open" THEN [st EXCEPT !.sock = "ended"] ELSE st

\* ------------------------------------------------ the 'data' handler
\* A loop that skips nothing.
IsBlankNever(rawMessage) == FALSE

\* line 292: if (!rawMessage.trim()) continue;
IsBlank(rawMessage) == Trim(rawMessage) = <<>>

\* An authenticator that admits every token.
UnauthorizedNever(message) == FALSE

\* line 316: message.header.auth_token !== AUTH_TOKEN
Unauthorized(message) == message.header.auth_token # AUTH_TOKEN

\* A Job that keeps the first connection instead of its own.
NewJobFirstSocket(c, message, id) ==
    [id |-> id, method |-> message.header.method, payload |-> message.body,
     requestId |-> message.request_id, socket |-> 1,
     token |-> message.header.auth_token]

\* lines 328-334: the Job of an admitted message.
NewJob(c, message, id) ==
    [id |-> id, method |-> message.header.method, payload |-> message.body,
     requestId |-> message.request_id, socket |-> c,
     token |-> message.header.auth_token]

\* A catch that also ends the connection.
ParseFailureEnds(st) ==
    SocketEnd(SocketWrite([st EXCEPT !.errors = st.errors + 1],
                createResponse("ERROR", Result("Invalid message format", "", 0),
                               NullId)))

\* lines 341-345: the catch of the per-message try.
ParseFailure(st) ==
    SocketWrite([st EXCEPT !.errors = st.errors + 1],
                createResponse("ERROR", Result("Invalid message format", "", 0),
                               NullId))

\* A rejection that leaves the connection open.
RejectKeepsOpen(st, message) ==
    SocketWrite(st,
        createResponse("ERROR", Result("Unauthorized", "", 0),
                       message.request_id))

\* lines 316-321: the rejection; the handler returns after it.
Reject(st, message) ==
    SocketEnd(SocketWrite(st,
        createResponse("ERROR", Result("Unauthorized", "", 0),
                       message.request_id)))

\* An enqueue that is refused while a Job waits already.
AdmitBounded(c, st, message) ==
    IF Len(st.queue) >= 1 THEN st
    ELSE processQueueStart(
            [st EXCEPT !.queue = Append(st.queue, NewJob(c, message, st.enqueued + 1)),
                       !.enqueued = st.enqueued + 1])

\* An enqueue that puts the new Job in front of the waiting ones.
AdmitAtHead(c, st, message) ==
    processQueueStart(
        [st EXCEPT !.queue = <<NewJob(c, message, st.enqueued + 1)>> \o st.queue,
                   !.enqueued = st.enqueued + 1])

\* lines 328-339: push the Job and call processQueue().
Admit(c, st, message) ==
    processQueueStart(
        [st EXCEPT !.queue = Append(st.queue, NewJob(c, message, st.enqueued + 1)),
                   !.enqueued = st.enqueued + 1])

\* A loop that goes on after a rejection.
RECURSIVE HandleMessagesContinues(_, _, _)
HandleMessagesContinues(c, messages, st) ==
    IF messages = <<>> THEN st
    ELSE LET rawMessage == Head(messages)
             parsed == parseMessage(rawMessage)
         IN  IF IsBlank(rawMessage)
             THEN HandleMessagesContinues(c, Tail(messages), st)
             ELSE IF ~parsed.ok \/ ~parsed.message.header.hasHeader
             THEN HandleMessagesContinues(c, Tail(messages), ParseFailure(st))
             ELSE IF Unauthorized(parsed.message)
             THEN HandleMessagesContinues(c, Tail(messages),
                                          Reject(st, parsed.message))
             ELSE HandleMessagesContinues(c, Tail(messages),
                                          Admit(c, st, parsed.message))

\* lines 291-346: the loop over the messages of one chunk.  A message that
\* parses but has no header throws at line 302 (message.header.method) and
\* lands in the same catch as text that is not JSON.
RECURSIVE HandleMessages(_, _, _)
HandleMessages(c, messages, st) ==
    IF messages = <<>> THEN st
    ELSE LET rawMessage == Head(messages)
             parsed == parseMessage(rawMessage)
         IN  IF IsBlank(rawMessage)
             THEN HandleMessages(c, Tail(messages), st)
             ELSE IF ~parsed.ok \/ ~parsed.message.header.hasHeader
             THEN HandleMessages(c, Tail(messages), ParseFailure(st))
             ELSE IF Unauthorized(parsed.message)
             THEN Reject(st, parsed.message)
             ELSE HandleMessages(c, Tail(messages), Admit(c, st, parsed.message))

\* lines 285-289: what the chunk leaves in the buffer, and the messages.
NewBuffer(buf, data) == Last(Split(buf \o toString(data)))
NewMessages(buf, data) == Front(Split(buf \o toString(data)))

\* Write a snapshot back.
Commit(c, st) ==
    /\ processingQueue' = st.queue
    /\ isProcessing' = st.busy
    /\ workers' = st.workers
    /\ started' = st.started
    /\ enqueued' = st.enqueued
    /\ sock' = [sock EXCEPT ![c] = st.sock]
    /\ wire' = [wire EXCEPT ![c] = st.wire]
    /\ writeFailed' = [writeFailed EXCEPT ![c] = st.writeFailed]

\* A handler whose buffer is shared by all connections.
OnDataSharedBuffer(c, n) ==
    /\ sock[c] \in {"open", "ended"}
    /\ n \in 1..Len(inflight[c])
    /\ LET data == SubSeq(inflight[c], 1, n)
           st == HandleMessages(c, NewMessages(buffer[1], data), Snapshot(c))
       IN  /\ Commit(c, st)
           /\ stats' = [stats EXCEPT !.totalErrors = st.errors]
           /\ buffer' = [buffer EXCEPT ![1] = NewBuffer(buffer[1], data)]
           /\ inflight' = [inflight EXCEPT ![c] = SubSeq(@, n + 1, Len(@))]
           /\ received' = [received EXCEPT ![c] = @ \o data]
           /\ extracted' = [extracted EXCEPT
                                ![c] = @ \o NewMessages(buffer[1], data)]
           /\ idle' = [idle EXCEPT ![c] = Refresh(@)]
    /\ UNCHANGED <<immediates, sends, sentTo, finished, auditLog, now, clientDue, stub>>

\* socket.on('data'), lines 281-347, for the chunk made of the first n
\* bytes in flight.
OnData(c, n) ==
    /\ sock[c] \in {"open", "ended"}
    /\ n \in 1..Len(inflight[c])
    /\ LET data == SubSeq(inflight[c], 1, n)
           st == HandleMessages(c, NewMessages(buffer[c], data), Snapshot(c))
       IN  /\ Commit(c, st)
           /\ stats' = [stats EXCEPT !.totalErrors = st.errors]
           /\ buffer' = [buffer EXCEPT ![c] = NewBuffer(buffer[c], data)]
           /\ inflight' = [inflight EXCEPT ![c] = SubSeq(@, n + 1, Len(@))]
           /\ received' = [received EXCEPT ![c] = @ \o data]
           /\ extracted' = [extracted EXCEPT
                                ![c] = @ \o NewMessages(buffer[c], data)]
           /\ idle' = [idle EXCEPT ![c] = Refresh(@)]
    /\ UNCHANGED <<immediates, sends, sentTo, finished, auditLog, now, clientDue, stub>>

\* ------------------------------------------------- the method registry
RegisteredMethods ==
    {"UPLOAD_FILE", "LIST_FILES", "DELETE_FILE", "CHECK_BALANCE", "PING"}

\* The result of UPLOAD_FILE, lines 176-181.
UploadResult(payload) ==
    Result("File uploaded successfully", payload.filename, Len(payload.content))

\* A registry whose default case answers instead of throwing.
executeMethodNoDefault(method, payload) ==
    IF method = "UPLOAD_FILE" /\ payload.defined
    THEN [kind |-> "await",
          result |-> Result("File uploaded successfully", payload.filename,
                            Len(payload.content))]
    ELSE [kind |-> "return", result |-> Result("done", method, 0)]

\* A registry in which every handler writes to the audit sink.
executeMethodAuditsAll(method, payload) ==
    IF method \in RegisteredMethods /\ payload.defined
    THEN [kind |-> "await",
          result |-> Result("File uploaded successfully", payload.filename,
                            Len(payload.content))]
    ELSE [kind |-> "throw", result |-> Result("Unknown method: ", method, 0)]

\* executeMethod, lines 150-231, up to its first await or its end:
\* "await" (the audit write of UPLOAD_FILE is pending), "return" or "throw".
\* UPLOAD_FILE reads payload.filename at line 163, DELETE_FILE at line 202
\* and CHECK_BALANCE payload.user_id at line 212: each throws a TypeError
\* when the request had no body.  Only UPLOAD_FILE awaits the audit sink.
executeMethod(method, payload) ==
    IF method = "UPLOAD_FILE"
    THEN IF payload.defined
         THEN [kind |-> "await", result |-> UploadResult(payload)]
         ELSE [kind |-> "throw",
               result |-> Result("Cannot read properties of undefined", "filename", 0)]
    ELSE IF method \in {"DELETE_FILE", "CHECK_BALANCE"} /\ ~payload.defined
    THEN [kind |-> "throw",
          result |-> Result("Cannot read properties of undefined",
                            IF method = "DELETE_FILE" THEN "filename" ELSE "user_id", 0)]
    ELSE IF method \in RegisteredMethods
    THEN [kind |-> "return", result |-> Result("done", method, 0)]
    ELSE [kind |-> "throw", result |-> Result("Unknown method: ", method, 0)]

\* An audit write whose failure is not caught.
AfterAuditUncaught(sinkOk, result) ==
    IF sinkOk THEN [kind |-> "return", result |-> result]
    ELSE [kind |-> "throw", result |-> Result("audit sink failed", "", 0)]

\* lines 171-174: catch (err) of the audit write; what executeMethod does
\* after the sink answered.
AfterAudit(sinkOk, result) == [kind |-> "return", result |-> result]

\* A catch that answers nothing.
RespondOnlyOk(job, outcome, st) ==
    IF st.sock = "destroyed" \/ outcome.kind # "return" THEN st
    ELSE SocketWrite(st, createResponse("OK", outcome.result, job.requestId))

\* A catch that answers after the try has answered already.
RespondTwice(job, outcome, st) ==
    IF st.sock = "destroyed" THEN st
    ELSE IF outcome.kind = "return"
    THEN SocketWrite(st, createResponse("OK", outcome.result, job.requestId))
    ELSE SocketWrite(
            SocketWrite(st, createResponse("OK", outcome.result, job.requestId)),
            createResponse("ERROR", outcome.result, job.requestId))

\* lines 116-119 and 128-131: the response of a finished Job, written only
\* when the socket is not destroyed.
Respond(job, outcome, st) ==
    IF st.sock = "destroyed" THEN st
    ELSE SocketWrite(st,
            createResponse(IF outcome.kind = "return" THEN "OK" ELSE "ERROR",
                           outcome.result, job.requestId))

\* An end of processQueue without its setImmediate.
CompleteNoRecheck(w, outcome) ==
    LET c == w.job.socket
        st == Respond(w.job, outcome, Snapshot(c))
    IN  /\ wire' = [wire EXCEPT ![c] = st.wire]
        /\ writeFailed' = [writeFailed EXCEPT ![c] = st.writeFailed]
        /\ idle' = IF st.wire # wire[c]
                   THEN [idle EXCEPT ![c] = Refresh(@)] ELSE idle
        /\ stats' = IF outcome.kind = "return"
                    THEN [stats EXCEPT !.totalProcessed = @ + 1]
                    ELSE [stats EXCEPT !.totalErrors = @ + 1]
        /\ isProcessing' = FALSE
        /\ immediates' = immediates
        /\ workers' = workers \ {w}
        /\ finished' = Append(finished, w.job.id)

\* An end of processQueue that counts a Job only when its response was
\* written.
CompleteCountsWritten(w, outcome) ==
    LET c == w.job.socket
        st == Respond(w.job, outcome, Snapshot(c))
    IN  /\ wire' = [wire EXCEPT ![c] = st.wire]
        /\ writeFailed' = [writeFailed EXCEPT ![c] = st.writeFailed]
        /\ idle' = IF st.wire # wire[c]
                   THEN [idle EXCEPT ![c] = Refresh(@)] ELSE idle
        /\ stats' = IF outcome.kind = "return"
                    THEN IF st.wire # wire[c]
                         THEN [stats EXCEPT !.totalProcessed = @ + 1]
                         ELSE stats
                    ELSE [stats EXCEPT !.totalErrors = @ + 1]
        /\ isProcessing' = FALSE
        /\ immediates' = immediates + 1
        /\ workers' = workers \ {w}
        /\ finished' = Append(finished, w.job.id)

\* An end of processQueue that is skipped when the handler threw.
CompleteLeaksOnThrow(w, outcome) ==
    LET c == w.job.socket
        st == Respond(w.job, outcome, Snapshot(c))
    IN  /\ wire' = [wire EXCEPT ![c] = st.wire]
        /\ writeFailed' = [writeFailed EXCEPT ![c] = st.writeFailed]
        /\ idle' = IF st.wire # wire[c]
                   THEN [idle EXCEPT ![c] = Refresh(@)] ELSE idle
        /\ stats' = IF outcome.kind = "return"
                    THEN [stats EXCEPT !.totalProcessed = @ + 1]
                    ELSE [stats EXCEPT !.totalErrors = @ + 1]
        /\ isProcessing' = (outcome.kind # "return")
        /\ immediates' = IF outcome.kind = "return"
                         THEN immediates + 1 ELSE immediates
        /\ workers' = workers \ {w}
        /\ finished' = Append(finished, w.job.id)

\* lines 115-138: from the end of executeMethod to the end of processQueue.
Complete(w, outcome) ==
    LET c == w.job.socket
        st == Respond(w.job, outcome, Snapshot(c))
    IN  /\ wire' = [wire EXCEPT ![c] = st.wire]
        /\ writeFailed' = [writeFailed EXCEPT ![c] = st.writeFailed]
        /\ idle' = IF st.wire # wire[c]
                   THEN [idle EXCEPT ![c] = Refresh(@)] ELSE idle
        /\ stats' = IF outcome.kind = "return"
                    THEN [stats EXCEPT !.totalProcessed = @ + 1]
                    ELSE [stats EXCEPT !.totalErrors = @ + 1]
        /\ isProcessing' = FALSE
        /\ immediates' = immediates + 1
        /\ workers' = workers \ {w}
        /\ finished' = Append(finished, w.job.id)

\* Lines 110-138 for a handler that ran up to outcome: the Job waits for
\* its audit write, or its response is written and processQueue ends.
Executed(w, outcome) ==
    /\ w \in workers
    /\ w.pc = "latency"
    /\ IF outcome.kind = "await"
       THEN /\ workers' = (workers \ {w}) \cup {[w EXCEPT !.pc = "audit"]}
            /\ UNCHANGED <<wire, writeFailed, stats, isProcessing,
                           immediates, finished, idle>>
       ELSE Complete(w, outcome)
    /\ UNCHANGED <<processingQueue, buffer, sock, inflight, received, extracted,
                   sends, sentTo, enqueued, started, auditLog, now, clientDue, stub>>

\* The latency timer of line 110 fires: executeMethod runs.
LatencyElapsed(w) ==
    Executed(w, executeMethod(w.job.method, w.job.payload))

\* convex.mutation of line 165 settles: stored (sinkOk) or failed.
AuditDone(w, sinkOk) ==
    /\ w \in workers
    /\ w.pc = "audit"
    /\ auditLog' = IF sinkOk
                   THEN Append(auditLog, [job |-> w.job.id,
                                          filename |-> w.job.payload.filename])
                   ELSE auditLog
    /\ Complete(w, AfterAudit(sinkOk, UploadResult(w.job.payload)))
    /\ UNCHANGED <<processingQueue, buffer, sock, inflight, received, extracted,
                   sends, sentTo, enqueued, started, now, clientDue, stub>>

\* A callback that returns without looking at the queue.
RunImmediateIdle ==
    /\ immediates > 0
    /\ immediates' = immediates - 1
    /\ UNCHANGED <<processingQueue, isProcessing, workers, started,
                   stats, buffer, sock, wire, writeFailed, inflight, received,
                   extracted, sends, sentTo, enqueued, finished, auditLog, now, clientDue,
                   idle, stub>>

\* The callback of setImmediate(processQueue), line 138.
RunImmediate ==
    /\ immediates > 0
    /\ immediates' = immediates - 1
    /\ LET st == processQueueStart(
                    [queue |-> processingQueue, busy |-> isProcessing,
                     workers |-> workers, started |-> started])
       IN  /\ processingQueue' = st.queue
           /\ isProcessing' = st.busy
           /\ workers' = st.workers
           /\ started' = st.started
    /\ UNCHANGED <<stats, buffer, sock, wire, writeFailed, inflight, received,
                   extracted, sends, sentTo, enqueued, finished, auditLog, now, clientDue,
                   idle, stub>>

\* ------------------------------------------------------- connections
\* net.createServer callback, lines 258-272 and 366: a connection is
\* accepted with an empty buffer.
Connect(c) ==
    /\ sock[c] = "none"
    /\ sock' = [sock EXCEPT ![c] = "open"]
    /\ buffer' = [buffer EXCEPT ![c] = <<>>]
    /\ clientDue' = [clientDue EXCEPT ![c] = now + TIMEOUT_MS]
    /\ idle' = [idle EXCEPT ![c] = [acceptedAt |-> now,
                                     due |-> now + IDLE_TIMEOUT_MS]]
    /\ UNCHANGED <<processingQueue, isProcessing, stats, workers, immediates,
                   wire, writeFailed, inflight, received, extracted, sends, sentTo,
                   enqueued, started, finished, auditLog, now, stub>>

\* A client writes bytes to its socket.
ClientSend(c, bytes) ==
    /\ sock[c] \in {"open", "ended"}
    /\ sends' = sends + 1
    /\ sentTo' = Append(sentTo, c)
    /\ inflight' = [inflight EXCEPT ![c] = @ \o bytes]
    /\ UNCHANGED <<processingQueue, isProcessing, stats, workers, immediates,
                   buffer, sock, wire, writeFailed, received, extracted,
                   enqueued, started, finished, auditLog, now, clientDue,
                   idle, stub>>

\* A close that aborts the processQueue calls of the connection.
DestroySocketAborts(c) ==
    /\ sock' = [sock EXCEPT ![c] = "destroyed"]
    /\ buffer' = [buffer EXCEPT ![c] = <<>>]
    /\ inflight' = [inflight EXCEPT ![c] = <<>>]
    /\ workers' = {w \in workers : w.job.socket # c}
    /\ UNCHANGED <<processingQueue, isProcessing, stats, immediates,
                   wire, writeFailed, received, extracted, sends, sentTo, enqueued,
                   started, finished, auditLog, now, clientDue, idle>>

\* The connection is gone: the socket is destroyed, with its buffer.
DestroySocket(c) ==
    /\ sock' = [sock EXCEPT ![c] = "destroyed"]
    /\ buffer' = [buffer EXCEPT ![c] = <<>>]
    /\ inflight' = [inflight EXCEPT ![c] = <<>>]
    /\ UNCHANGED <<processingQueue, isProcessing, stats, workers, immediates,
                   wire, writeFailed, received, extracted, sends, sentTo, enqueued,
                   started, finished, auditLog, now, clientDue, idle>>

\* A close that cancels the Jobs of the connection that still wait.
DestroyCancels(c) ==
    /\ sock' = [sock EXCEPT ![c] = "destroyed"]
    /\ buffer' = [buffer EXCEPT ![c] = <<>>]
    /\ inflight' = [inflight EXCEPT ![c] = <<>>]
    /\ processingQueue' = SelectSeq(processingQueue, LAMBDA job : job.socket # c)
    /\ UNCHANGED <<isProcessing, stats, workers, immediates,
                   wire, writeFailed, received, extracted, sends, sentTo, enqueued,
                   started, finished, auditLog, now, clientDue, idle, stub>>

Destroy(c) ==
    /\ DestroySocket(c)
    /\ UNCHANGED stub

\* The client destroys its socket (client.destroy() of the stub and of the
\* load test), or the connection is reset.
ClientClose(c) ==
    /\ sock[c] \in {"open", "ended"}
    /\ Destroy(c)

\* An error that takes the waiting Jobs of every connection with it.
SocketErrorDropsQueue(c) ==
    /\ sock[c] \in {"open", "ended"}
    /\ sock' = [sock EXCEPT ![c] = "destroyed"]
    /\ buffer' = [buffer EXCEPT ![c] = <<>>]
    /\ inflight' = [inflight EXCEPT ![c] = <<>>]
    /\ processingQueue' = <<>>
    /\ UNCHANGED <<isProcessing, stats, workers, immediates,
                   wire, writeFailed, received, extracted, sends, sentTo, enqueued,
                   started, finished, auditLog, now, clientDue, idle, stub>>

\* socket.on('error'), lines 356-358: the handler logs; Node destroys the
\* socket that raised the error.
SocketError(c) ==
    /\ sock[c] \in {"open", "ended"}
    /\ Destroy(c)

\* socket.on('timeout'), lines 360-363: socket.end().
IdleTimeout(c) ==
    /\ sock[c] = "open"
    /\ sock' = [sock EXCEPT ![c] = "ended"]
    /\ UNCHANGED <<processingQueue, isProcessing, stats, workers, immediates,
                   buffer, wire, writeFailed, inflight, received, extracted,
                   sends, sentTo, enqueued, started, finished, auditLog, now, clientDue,
                   idle, stub>>

\* ------------------------------------------------------------ clients
\* Number.prototype.toString(): the decimal digits of n.
Digit(d) ==
    CASE d = 0 -> "0" [] d = 1 -> "1" [] d = 2 -> "2" [] d = 3 -> "3"
      [] d = 4 -> "4" [] d = 5 -> "5" [] d = 6 -> "6" [] d = 7 -> "7"
      [] d = 8 -> "8" [] OTHER -> "9"

RECURSIVE Decimal(_)
Decimal(n) ==
    IF n < 10 THEN <<Digit(n)>> ELSE Append(Decimal(n \div 10), Digit(n % 10))

\* The n-th frame the clients send: a request of kind k whose request_id
\* is n, text that is not JSON, a whitespace-only frame, an empty frame.
Request(k, n) == createMessage(k, Decimal(n))
NotJson(n) == Decimal(n) \o <<"NL">>
Whitespace == <<"SP", "NL">>
Empty == <<"NL">>

\* What the server does, whatever the clients send.
Server ==
    \/ \E c \in Conns : \E n \in 1..Len(inflight[c]) : OnData(c, n)
    \/ \E w \in workers : LatencyElapsed(w)
    \/ \E w \in workers : \E sinkOk \in BOOLEAN : AuditDone(w, sinkOk)
    \/ RunImmediate

\* The clients of the dispatch core: requests that are answered OK, with
\* and without an audit write, a request for an unknown method and a
\* request with a wrong token.
Menu(n) == {Request("P", n), Request("U", n), Request("N", n), Request("W", n)}

Next ==
    \/ \E c \in Conns : Connect(c)
    \/ \E c \in Conns : \E bytes \in Menu(sends + 1) :
            sends < MaxSends /\ ClientSend(c, bytes)
    \/ Server

Spec == Init /\ [][Next]_vars

\* The event loop runs what is ready: a timer that is due fires, a promise
\* that settled resumes its await, a setImmediate callback is called.
SpecFair ==
    /\ Spec
    /\ WF_vars(\E w \in workers : LatencyElapsed(w))
    /\ WF_vars(\E w \in workers : \E sinkOk \in BOOLEAN : AuditDone(w, sinkOk))
    /\ WF_vars(RunImmediate)

\* The clients of the handlers: uploads with and without body (the handler
\* of the second throws) and a ping.
HandlerMenu(n) == {Request("U", n), Request("T", n), Request("P", n)}

NextHandlers ==
    \/ \E c \in Conns : Connect(c)
    \/ \E c \in Conns : \E bytes \in HandlerMenu(sends + 1) :
            sends < MaxSends /\ ClientSend(c, bytes)
    \/ Server

SpecHandlers == Init /\ [][NextHandlers]_vars

\* The clients of the authenticator: an admitted request, and requests
\* with a wrong token (with and without request_id) or without token.
AuthMenu(n) ==
    {Request("U", n), Request("W", n), createMessage("W", NullId),
     Request("M", n)}

NextAuth ==
    \/ \E c \in Conns : Connect(c)
    \/ \E c \in Conns : \E bytes \in AuthMenu(sends + 1) :
            sends < MaxSends /\ ClientSend(c, bytes)
    \/ Server

SpecAuth == Init /\ [][NextAuth]_vars

SpecAuthFair ==
    /\ SpecAuth
    /\ WF_vars(\E w \in workers : LatencyElapsed(w))
    /\ WF_vars(\E w \in workers : \E sinkOk \in BOOLEAN : AuditDone(w, sinkOk))
    /\ WF_vars(RunImmediate)

\* The clients of the frame handling: an admitted request, text that is
\* not JSON, JSON without header, whitespace-only and empty frames.
FrameMenu(n) ==
    {Request("U", n), NotJson(n), Request("H", n), Whitespace, Empty}

NextFrames ==
    \/ \E c \in Conns : Connect(c)
    \/ \E c \in Conns : \E bytes \in FrameMenu(sends + 1) :
            sends < MaxSends /\ ClientSend(c, bytes)
    \/ Server

SpecFrames == Init /\ [][NextFrames]_vars

\* ---------------------------------------------------------------------
\* Properties of the dispatch core (Spec)
\* ---------------------------------------------------------------------
QueuedJobs == {processingQueue[i] : i \in DOMAIN processingQueue}
ActiveJobs == {w.job : w \in workers}

\* C1: at most one Job is between its dequeue and the end of its
\* processQueue call, whatever the connections send and wherever the
\* dispatcher is suspended; a Job is in flight only while isProcessing.
C1_AtMostOneActiveJob ==
    /\ Cardinality(workers) <= 1
    /\ Len(started) - Len(finished) <= 1
    /\ workers # {} => isProcessing

\* A Job of one connection is suspended at its audit write while a Job of
\* another connection waits in the queue.
C1_Witness ==
    \E w \in workers :
        /\ w.pc = "audit"
        /\ \E j \in QueuedJobs : j.socket # w.job.socket

\* C2: Jobs are dequeued in the order they were enqueued (Job ids are given
\* in enqueue order): the dequeue order is increasing, and every Job still
\* queued was enqueued after every Job already dequeued.
C2_GlobalFIFO ==
    /\ \A i, j \in DOMAIN started : i < j => started[i] < started[j]
    /\ \A i \in DOMAIN started : \A j \in QueuedJobs : started[i] < j.id
    /\ \A i, j \in DOMAIN processingQueue :
            i < j => processingQueue[i].id < processingQueue[j].id

\* Three Jobs from alternating connections were dequeued.
C2_Witness ==
    /\ started = <<1, 2, 3>>
    /\ sentTo = <<1, 2, 1>>

\* C4: a response that carries a request_id is on the connection that sent
\* the request with that id, and no connection sees two responses with the
\* same request_id; a Job's socket is the connection its request came from.
C4_Correlation ==
    /\ \A c \in Conns : \A i \in DOMAIN wire[c] :
          wire[c][i].request_id # NullId =>
             /\ \E n \in 1..sends :
                   wire[c][i].request_id = Decimal(n) /\ sentTo[n] = c
             /\ \A j \in DOMAIN wire[c] :
                   wire[c][j].request_id = wire[c][i].request_id => j = i
    /\ \A job \in QueuedJobs \cup ActiveJobs :
          \E n \in 1..sends : job.requestId = Decimal(n) /\ sentTo[n] = job.socket

\* Both connections hold a response of the dispatcher, an OK and an ERROR.
C4_Witness ==
    /\ \E i \in DOMAIN wire[1] : wire[1][i].status = "OK"
    /\ \E i \in DOMAIN wire[2] :
          wire[2][i].result.message = "Unknown method: "

\* The Job whose processQueue call ends in this step, when one does.
Finishing == finished' # finished
FinishedWorker == CHOOSE w \in workers : w.job.id = Last(finished')

\* Every connection but c keeps its socket, buffer and responses.
OthersUntouched(c) ==
    \A d \in DOMAIN sock :
        d # c => /\ sock'[d] = sock[d]
                 /\ wire'[d] = wire[d]
                 /\ buffer'[d] = buffer[d]
                 /\ inflight'[d] = inflight[d]

\* C7: the Job of a method without handler ends with exactly one ERROR
\* response "Unknown method: <method>" with its request_id on its own
\* connection, the connection stays as it was (open), the dispatcher is
\* Idle again with a re-check scheduled, and nothing else is written.
C7_Step ==
    (Finishing /\ FinishedWorker.job.method \notin RegisteredMethods) =>
        LET job == FinishedWorker.job
            c == job.socket
        IN  /\ sock[c] = "open" =>
                wire'[c] = Append(wire[c],
                    createResponse("ERROR",
                        Result("Unknown method: ", job.method, 0), job.requestId))
            /\ sock' = sock
            /\ isProcessing' = FALSE
            /\ immediates' = immediates + 1
            /\ processingQueue' = processingQueue
            /\ OthersUntouched(c)

C7_UnknownMethodIsolation == [][C7_Step]_vars

\* A connection was answered ERROR for an unknown method and then OK for
\* its next request, and it is still open.
C7_Witness ==
    \E c \in Conns :
        /\ sock[c] = "open"
        /\ Len(wire[c]) = 2
        /\ wire[c][1].result.message = "Unknown method: "
        /\ wire[c][1].request_id = Decimal(1)
        /\ wire[c][2].status = "OK"
        /\ wire[c][2].request_id = Decimal(2)

\* C10: when the audit sink fails (nothing is stored), the Job still ends
\* with one OK response carrying the request's filename and content size,
\* counts as processed and not as an error, and the dispatcher is Idle.
AuditFailing ==
    /\ Finishing
    /\ FinishedWorker.pc = "audit"
    /\ auditLog' = auditLog

C10_Step ==
    AuditFailing =>
        LET job == FinishedWorker.job
            c == job.socket
        IN  /\ sock[c] = "open" =>
                wire'[c] = Append(wire[c],
                    createResponse("OK",
                        Result("File uploaded successfully",
                               job.payload.filename, Len(job.payload.content)),
                        job.requestId))
            /\ stats'.totalErrors = stats.totalErrors
            /\ stats'.totalProcessed = stats.totalProcessed + 1
            /\ isProcessing' = FALSE
            /\ workers' = workers \ {FinishedWorker}

DigitValue(ch) ==
    CASE ch = "0" -> 0 [] ch = "1" -> 1 [] ch = "2" -> 2 [] ch = "3" -> 3
      [] ch = "4" -> 4 [] ch = "5" -> 5 [] ch = "6" -> 6 [] ch = "7" -> 7
      [] ch = "8" -> 8 [] OTHER -> 9

RECURSIVE ParseDecimal(_)
ParseDecimal(digits) ==
    IF digits = <<>> THEN 0
    ELSE 10 * ParseDecimal(Front(digits)) + DigitValue(Last(digits))

\* createResponse, lines 341-348: the bytes of JSON.stringify({...}) + "\n".
\* The status, the message and the name are fixed texts of the server, one
\* token each; the size is written in decimal digits and closed by "Q"; the
\* request_id is the string the client chose.
ResponseText(response) ==
    Utf8(<<response.status, response.result.message, response.result.name>>
            \o Decimal(response.result.size) \o <<"Q">>
            \o Escape(response.request_id))
       \o <<"NL">>

\* route.ts line 170, load_test.js line 111: JSON.parse(text.trim()) of a
\* response.
parseResponse(text) ==
    LET t == Trim(text)
        closes == {q \in 5..Len(t) :
                      t[q] = "Q" /\ \A i \in 4..(q - 1) : t[i] \in Digits}
        q == CHOOSE i \in closes : TRUE
        rid == Unescape(SubSeq(t, q + 1, Len(t)), <<>>)
    IN  IF closes # {} /\ t[1] \in {"OK", "ERROR"} /\ rid.ok
        THEN [ok |-> TRUE,
              response |-> createResponse(t[1],
                              Result(t[2], t[3], ParseDecimal(SubSeq(t, 4, q - 1))),
                              rid.value)]
        ELSE [ok |-> FALSE, response |-> createResponse("", Result("", "", 0), NullId)]

\* The bytes the server has written to a socket, response after response.
RECURSIVE ResponseBytes(_)
ResponseBytes(responses) ==
    IF responses = <<>> THEN <<>>
    ELSE ResponseText(Head(responses)) \o ResponseBytes(Tail(responses))

\* String.prototype.trim() of a text that may hold line terminators.
RECURSIVE TrimText(_)
TrimText(s) ==
    IF s # <<>> /\ Head(s) \in {"SP", "NL"} THEN TrimText(Tail(s))
    ELSE IF s # <<>> /\ Last(s) \in {"SP", "NL"} THEN TrimText(Front(s))
    ELSE s

\* responseBuffer.includes('\n')
HasLine(text) == \E i \in DOMAIN text : text[i] = "NL"

\* route.ts, sendToRpcServer, lines 115-135: the promise is created with
\* its socket, an empty responseBuffer and the timeout armed.
StubCall(c) ==
    /\ stub[c].state = "none"
    /\ sock[c] = "none"
    /\ stub' = [stub EXCEPT ![c] = [NoCall EXCEPT !.state = "pending",
                                                  !.timer = TRUE]]
    /\ UNCHANGED <<processingQueue, isProcessing, stats, workers, immediates,
                   buffer, sock, wire, writeFailed, inflight, received, extracted,
                   sends, sentTo, enqueued, started, finished, auditLog, now,
                   clientDue, idle>>

\* client.connect(...), line 142: the server accepts the connection.
StubConnect(c) ==
    /\ stub[c].state = "pending"
    /\ Connect(c)

\* client.write(packet), line 150: one packet per call.
StubSend(c, bytes) ==
    /\ stub[c].state = "pending"
    /\ sock[c] = "open"
    /\ \A n \in DOMAIN sentTo : sentTo[n] # c
    /\ ClientSend(c, bytes)

\* The timeout callback, lines 131-135: client.destroy() and reject.
StubTimeout(c) ==
    /\ stub[c].state = "pending"
    /\ stub[c].timer
    /\ stub' = [stub EXCEPT ![c].state = "rejected", ![c].timer = FALSE,
                            ![c].error = "RPC server timeout"]
    /\ DestroySocket(c)

\* A handler that settles with whatever the first chunk holds.
StubDataEager(c, n) ==
    /\ stub[c].state = "pending"
    /\ sock[c] \in {"open", "ended"}
    /\ n \in 1..(Len(ResponseBytes(wire[c])) - stub[c].read)
    /\ LET data == SubSeq(ResponseBytes(wire[c]), stub[c].read + 1, stub[c].read + n)
           text == stub[c].responseBuffer \o toString(data)
           parsed == parseResponse(TrimText(text))
       IN  /\ stub' = [stub EXCEPT ![c].state = "resolved", ![c].timer = FALSE,
                                   ![c].responseBuffer = text,
                                   ![c].read = @ + n,
                                   ![c].response = parsed.response]
           /\ DestroySocket(c)

\* client.on('data'), lines 159-188, for the chunk made of the next n bytes
\* of the response stream: the chunk is decoded and appended; once the
\* buffer holds a newline the timeout is cleared, the trimmed buffer is
\* parsed, the socket is destroyed and the call resolves with the response
\* or rejects when the text does not parse.
StubData(c, n) ==
    /\ stub[c].state = "pending"
    /\ sock[c] \in {"open", "ended"}
    /\ n \in 1..(Len(ResponseBytes(wire[c])) - stub[c].read)
    /\ LET data == SubSeq(ResponseBytes(wire[c]), stub[c].read + 1, stub[c].read + n)
           text == stub[c].responseBuffer \o toString(data)
           parsed == parseResponse(TrimText(text))
       IN  IF HasLine(text)
           THEN /\ stub' = IF parsed.ok
                           THEN [stub EXCEPT ![c].state = "resolved",
                                             ![c].timer = FALSE,
                                             ![c].responseBuffer = text,
                                             ![c].read = @ + n,
                                             ![c].response = parsed.response]
                           ELSE [stub EXCEPT ![c].state = "rejected",
                                             ![c].timer = FALSE,
                                             ![c].responseBuffer = text,
                                             ![c].read = @ + n,
                                             ![c].error = "Failed to parse RPC response"]
                /\ DestroySocket(c)
           ELSE /\ stub' = [stub EXCEPT ![c].responseBuffer = text,
                                        ![c].read = @ + n]
                /\ UNCHANGED <<processingQueue, isProcessing, stats, workers,
                               immediates, buffer, sock, wire, writeFailed, inflight,
                               received, extracted, sends, sentTo, enqueued, started,
                               finished, auditLog, now, clientDue, idle>>

\* client.on('error'), lines 195-212, for a connection that was reset.
StubOnError(c) ==
    /\ stub[c].state = "pending"
    /\ stub[c].timer
    /\ sock[c] = "destroyed"
    /\ stub' = [stub EXCEPT ![c].state = "rejected", ![c].timer = FALSE,
                            ![c].error = "RPC connection failed"]
    /\ UNCHANGED <<processingQueue, isProcessing, stats, workers, immediates,
                   buffer, sock, wire, writeFailed, inflight, received, extracted,
                   sends, sentTo, enqueued, started, finished, auditLog, now,
                   clientDue, idle>>

\* client.on('close'), lines 217-222, for a connection the other side has
\* closed (after an orderly end every byte written has been read before):
\* clearTimeout, and reject only when responseBuffer is non-empty and has
\* no terminator.
StubOnClose(c) ==
    /\ stub[c].state = "pending"
    /\ stub[c].timer
    /\ \/ sock[c] = "destroyed"
       \/ sock[c] = "ended" /\ stub[c].read = Len(ResponseBytes(wire[c]))
    /\ stub' = IF stub[c].responseBuffer # <<>> /\ ~HasLine(stub[c].responseBuffer)
               THEN [stub EXCEPT ![c].state = "rejected", ![c].timer = FALSE,
                                 ![c].error = "Connection closed before response received"]
               ELSE [stub EXCEPT ![c].timer = FALSE]
    /\ DestroySocket(c)

\* Stub calls against the server: an upload or a ping per call; the
\* server's socket may fail at any time.
StubMenu(n) == {Request("U", n), Request("P", n)}

NextStub ==
    \/ \E c \in Conns : StubCall(c)
    \/ \E c \in Conns : StubConnect(c)
    \/ \E c \in Conns : \E bytes \in StubMenu(sends + 1) : StubSend(c, bytes)
    \/ Server
    \/ \E c \in Conns : SocketError(c)
    \/ \E c \in Conns : \E n \in 1..Len(ResponseBytes(wire[c])) : StubData(c, n)
    \/ \E c \in Conns : StubTimeout(c)
    \/ \E c \in Conns : StubOnError(c)
    \/ \E c \in Conns : StubOnClose(c)

SpecStub == Init /\ [][NextStub]_vars

\* The event loops run what is ready: a timer that stays armed fires, a
\* worker that can resume resumes.
SpecStubFair ==
    /\ SpecStub
    /\ WF_vars(\E w \in workers : LatencyElapsed(w))
    /\ WF_vars(\E w \in workers : \E sinkOk \in BOOLEAN : AuditDone(w, sinkOk))
    /\ WF_vars(RunImmediate)
    /\ \A c \in Conns : WF_vars(StubTimeout(c))

\* The stub connects to whatever listens on RPC_SERVER_PORT (route.ts lines
\* 36-37): a peer that answers with a line that is no JSON text.
NotJsonLine == createResponse("not JSON", Result("", "", 0), NullId)

PeerText(c) ==
    /\ stub[c].state = "pending"
    /\ sock[c] = "open"
    /\ wire[c] = <<>>
    /\ wire' = [wire EXCEPT ![c] = <<NotJsonLine>>]
    /\ UNCHANGED <<processingQueue, isProcessing, stats, workers, immediates,
                   buffer, sock, writeFailed, inflight, received, extracted,
                   sends, sentTo, enqueued, started, finished, auditLog, now,
                   clientDue, idle, stub>>

\* Calls that upload, against the server (every chunk it reads holds the
\* whole request) or against such a peer.
NextStubPeer ==
    \/ \E c \in Conns : StubCall(c)
    \/ \E c \in Conns : StubConnect(c)
    \/ \E c \in Conns : StubSend(c, Request("U", sends + 1))
    \/ \E c \in Conns : OnData(c, Len(inflight[c]))
    \/ \E w \in workers : LatencyElapsed(w)
    \/ \E w \in workers : \E sinkOk \in BOOLEAN : AuditDone(w, sinkOk)
    \/ RunImmediate
    \/ \E c \in Conns : PeerText(c)
    \/ \E c \in Conns : SocketError(c)
    \/ \E c \in Conns : \E n \in 1..Len(ResponseBytes(wire[c])) : StubData(c, n)
    \/ \E c \in Conns : StubTimeout(c)
    \/ \E c \in Conns : StubOnError(c)
    \/ \E c \in Conns : StubOnClose(c)

SpecStubPeer == Init /\ [][NextStubPeer]_vars

\* Connections that come and go: clients that send an upload or a request
\* with a wrong token and disconnect at any time, sockets that fail, idle
\* timers that fire.
LifeMenu(n) == {Request("U", n), Request("W", n)}

NextLife ==
    \/ \E c \in Conns : Connect(c)
    \/ \E c \in Conns : \E bytes \in LifeMenu(sends + 1) :
            sends < MaxSends /\ ClientSend(c, bytes)
    \/ Server
    \/ \E c \in Conns : ClientClose(c)
    \/ \E c \in Conns : SocketError(c)
    \/ \E c \in Conns : IdleTimeout(c)

SpecLife == Init /\ [][NextLife]_vars

SpecLifeFair ==
    /\ SpecLife
    /\ WF_vars(\E w \in workers : LatencyElapsed(w))
    /\ WF_vars(\E w \in workers : \E sinkOk \in BOOLEAN : AuditDone(w, sinkOk))
    /\ WF_vars(RunImmediate)

\* Handlers that return and handlers that throw, for connections that are
\* open, ended by the idle timer or destroyed when the Job ends; every
\* chunk holds whole frames.
ReleaseMenu(n) == {Request("U", n), Request("T", n)}

NextRelease ==
    \/ \E c \in Conns : Connect(c)
    \/ \E c \in Conns : \E bytes \in ReleaseMenu(sends + 1) :
            sends < MaxSends /\ ClientSend(c, bytes)
    \/ \E c \in Conns : OnData(c, Len(inflight[c]))
    \/ \E w \in workers : LatencyElapsed(w)
    \/ \E w \in workers : \E sinkOk \in BOOLEAN : AuditDone(w, sinkOk)
    \/ RunImmediate
    \/ \E c \in Conns : ClientClose(c)
    \/ \E c \in Conns : IdleTimeout(c)

SpecRelease == Init /\ [][NextRelease]_vars

SpecReleaseFair ==
    /\ SpecRelease
    /\ WF_vars(\E w \in workers : LatencyElapsed(w))
    /\ WF_vars(\E w \in workers : \E sinkOk \in BOOLEAN : AuditDone(w, sinkOk))
    /\ WF_vars(RunImmediate)

\* The clients of the framing: well-formed requests, one of them with a
\* two-byte character in its request_id; TCP cuts the stream anywhere.
FramingMenu(n) ==
    {Request("P", n), createMessage("U", Append(Decimal(n), "E"))}

NextFraming ==
    \/ \E c \in Conns : Connect(c)
    \/ \E c \in Conns : \E bytes \in FramingMenu(sends + 1) :
            sends < MaxSends /\ ClientSend(c, bytes)
    \/ Server

SpecFraming == Init /\ [][NextFraming]_vars

\* ------------------------------------------------------ the load test
\* runLoadTest: client c is created at time 0 with its 5000 ms timer,
\* connects and writes one CHECK_BALANCE request; the clients are served
\* in the order of the loop.  Nothing but the timers takes time.
BurstConns == 1..BurstSize

InitBurst == InitFor(BurstConns)

BurstConnect(c) ==
    /\ c = sends + 1
    /\ Connect(c)

BurstSend(c) ==
    /\ c = sends + 1
    /\ sock[c] = "open"
    /\ ClientSend(c, Request("B", c))

BurstData(c) ==
    /\ c <= sends
    /\ \A d \in 1..(c - 1) : inflight[d] = <<>>
    /\ OnData(c, Len(inflight[c]))

\* The latency timer fires no earlier than it is due.
BurstLatency(w) ==
    /\ now >= w.due
    /\ LatencyElapsed(w)

\* load_test.js, client.on('data'): the response arrived, client.destroy().
ClientDone(c) ==
    /\ wire[c] # <<>>
    /\ ClientClose(c)

\* load_test.js, lines 59-66: no response after 5000 ms, client.destroy().
ClientTimeout(c) ==
    /\ wire[c] = <<>>
    /\ now >= clientDue[c]
    /\ ClientClose(c)

\* The timers that are armed.
Deadlines ==
    {w.due : w \in {v \in workers : v.pc = "latency"}}
       \cup {clientDue[c] : c \in {d \in BurstConns :
                                     sock[d] \in {"open", "ended"} /\ wire[d] = <<>>}}

\* Time passes to the next timer when the event loops have nothing to do.
Advance ==
    /\ sends = BurstSize
    /\ immediates = 0
    /\ \A c \in BurstConns :
          /\ inflight[c] = <<>>
          /\ ~(wire[c] # <<>> /\ sock[c] \in {"open", "ended"})
    /\ Deadlines # {}
    /\ \A d \in Deadlines : d > now
    /\ now' = CHOOSE d \in Deadlines : \A e \in Deadlines : d <= e
    /\ UNCHANGED <<processingQueue, isProcessing, stats, workers, immediates,
                   buffer, sock, wire, writeFailed, inflight, received, extracted,
                   sends, sentTo, enqueued, started, finished, auditLog, clientDue, idle, stub>>

NextBurst ==
    \/ \E c \in BurstConns : BurstConnect(c)
    \/ \E c \in BurstConns : BurstSend(c)
    \/ \E c \in BurstConns : BurstData(c)
    \/ \E w \in workers : BurstLatency(w)
    \/ RunImmediate
    \/ \E c \in BurstConns : ClientDone(c)
    \/ \E c \in BurstConns : ClientTimeout(c)
    \/ Advance

SpecBurst == InitBurst /\ [][NextBurst]_vars

\* ------------------------------------------------------ the idle timer
\* Clients that keep their connection and send now and then, a ping or a
\* whitespace-only frame, while time passes.
IdleMenu(n) == {Request("P", n), Whitespace}

\* The 'timeout' event: the inactivity timer of the socket is due.
IdleExpire(c) ==
    /\ now >= idle[c].due
    /\ IdleTimeout(c)

\* The timers that are armed on the server.
ServerDeadlines ==
    {w.due : w \in {v \in workers : v.pc = "latency"}}
       \cup {idle[c].due : c \in {d \in Conns : sock[d] = "open"}}

\* Time passes when the event loop has nothing to do: to the next timer,
\* or by half an idle period, whichever comes first.
TimePasses ==
    /\ now < MaxIdlePeriods * IDLE_TIMEOUT_MS
    /\ immediates = 0
    /\ \A c \in Conns : inflight[c] = <<>>
    /\ \A d \in ServerDeadlines : d > now
    /\ LET next == ServerDeadlines \cup {now + IDLE_TIMEOUT_MS \div 2}
       IN  now' = CHOOSE d \in next : \A e \in next : d <= e
    /\ UNCHANGED <<processingQueue, isProcessing, stats, workers, immediates,
                   buffer, sock, wire, writeFailed, inflight, received, extracted,
                   sends, sentTo, enqueued, started, finished, auditLog, clientDue,
                   idle, stub>>

NextIdle ==
    \/ \E c \in Conns : Connect(c)
    \/ \E c \in Conns : \E bytes \in IdleMenu(sends + 1) :
            sends < MaxSends /\ ClientSend(c, bytes)
    \/ \E c \in Conns : OnData(c, Len(inflight[c]))
    \/ \E w \in workers : BurstLatency(w)
    \/ RunImmediate
    \/ \E c \in Conns : IdleExpire(c)
    \/ TimePasses

SpecIdle == Init /\ [][NextIdle]_vars

\* ---------------------------------------------------------------------
\* Properties of the 'data' handler (SpecAuth, SpecFrames)
\* ---------------------------------------------------------------------
\* The chunk read in this step on connection c, and the raw messages the
\* buffer then holds.
DataStep(c) == received'[c] # received[c]
Chunk(c) == SubSeq(received'[c], Len(received[c]) + 1, Len(received'[c]))
ChunkMessages(c) == Front(Split(buffer[c] \o toString(Chunk(c))))

\* What a raw message is, read off its text.
Malformed(m) ==
    /\ Trim(m) # <<>>
    /\ ~parseMessage(m).ok \/ ~parseMessage(m).message.header.hasHeader
Rejected(m) ==
    /\ Trim(m) # <<>>
    /\ parseMessage(m).ok
    /\ parseMessage(m).message.header.hasHeader
    /\ parseMessage(m).message.header.auth_token # AUTH_TOKEN
Admissible(m) ==
    /\ Trim(m) # <<>>
    /\ parseMessage(m).ok
    /\ parseMessage(m).message.header.hasHeader
    /\ parseMessage(m).message.header.auth_token = AUTH_TOKEN

\* The index of the first rejected message, 0 when there is none.
FirstRejected(msgs) ==
    IF \E i \in DOMAIN msgs : Rejected(msgs[i])
    THEN CHOOSE i \in DOMAIN msgs :
            Rejected(msgs[i]) /\ \A j \in 1..(i - 1) : ~Rejected(msgs[j])
    ELSE 0

InvalidFormat ==
    createResponse("ERROR", Result("Invalid message format", "", 0), NullId)

\* C5: when the handler meets a request with a wrong or missing token on a
\* connection whose write side is open, the connection gets exactly one
\* more response for it, the ERROR "Unauthorized" with the request's
\* request_id (null when it has none), the server ends the connection, and
\* every other connection is untouched.  On every connection there is at
\* most one such response, it is the last one, and the connection is closed.
C5_Step ==
    \A c \in Conns :
        LET msgs == ChunkMessages(c)
            k == FirstRejected(msgs)
        IN  (DataStep(c) /\ sock[c] = "open" /\ k > 0) =>
                /\ Len(wire'[c]) =
                      Len(wire[c]) + Len(SelectSeq(SubSeq(msgs, 1, k - 1), Malformed)) + 1
                /\ SubSeq(wire'[c], 1, Len(wire[c])) = wire[c]
                /\ \A i \in (Len(wire[c]) + 1)..(Len(wire'[c]) - 1) :
                      wire'[c][i] = InvalidFormat
                /\ Last(wire'[c]) =
                      createResponse("ERROR", Result("Unauthorized", "", 0),
                                     parseMessage(msgs[k]).message.request_id)
                /\ sock'[c] = "ended"
                /\ OthersUntouched(c)

C5_Closed ==
    \A c \in Conns : \A i \in DOMAIN wire[c] :
        wire[c][i].result.message = "Unauthorized" =>
            i = Len(wire[c]) /\ sock[c] \in {"ended", "destroyed"}

C5_AuthRejection == []C5_Closed /\ [][C5_Step]_vars

\* One connection was rejected for a request without request_id, the other
\* for a request with one; each got its single ERROR and is closed.
C5_Witness ==
    /\ sock[1] = "ended" /\ sock[2] = "ended"
    /\ wire[1] = <<createResponse("ERROR", Result("Unauthorized", "", 0), NullId)>>
    /\ Len(wire[2]) >= 1
    /\ Last(wire[2]).result.message = "Unauthorized"
    /\ Last(wire[2]).request_id # NullId

\* C6: every Job queued or executing comes from a frame whose token is the
\* shared secret; a chunk enqueues exactly its admissible messages that
\* precede its first rejected one, and when there are none the queue and the
\* dispatcher are left as they were.
C6_Tokens ==
    \A job \in QueuedJobs \cup ActiveJobs : job.token = AUTH_TOKEN

C6_Step ==
    \A c \in Conns :
        LET msgs == ChunkMessages(c)
            k == FirstRejected(msgs)
            upto == IF k = 0 THEN msgs ELSE SubSeq(msgs, 1, k - 1)
            good == Len(SelectSeq(upto, Admissible))
        IN  DataStep(c) =>
                /\ enqueued' = enqueued + good
                /\ good = 0 =>
                      /\ processingQueue' = processingQueue
                      /\ workers' = workers
                      /\ isProcessing' = isProcessing

C6_NoUnauthenticatedJob == []C6_Tokens /\ [][C6_Step]_vars

\* A request was rejected while a Job was waiting in the queue.
C6_Witness ==
    /\ Len(processingQueue) >= 1
    /\ \E c \in Conns :
          /\ wire[c] # <<>>
          /\ Last(wire[c]).result.message = "Unauthorized"

\* C8: a chunk on an open connection without rejected request: every
\* message that is not valid structured data (and every message without
\* header) gets one ERROR "Invalid message format" with request_id null and
\* is counted as an error, the connection stays open, exactly the admissible
\* messages of the chunk, before and after it, become Jobs of this
\* connection in their order behind the Jobs already queued, and every
\* other connection is untouched.
JobIds(jobs) == [i \in DOMAIN jobs |-> jobs[i].id]
JobById(id) ==
    CHOOSE job \in QueuedJobs' \cup ActiveJobs' : job.id = id

C8_Step ==
    \A c \in Conns :
        LET msgs == ChunkMessages(c)
            bad == SelectSeq(msgs, Malformed)
            good == SelectSeq(msgs, Admissible)
        IN  (DataStep(c) /\ sock[c] = "open" /\ FirstRejected(msgs) = 0) =>
                /\ wire'[c] = wire[c] \o [i \in 1..Len(bad) |-> InvalidFormat]
                /\ stats'.totalErrors = stats.totalErrors + Len(bad)
                /\ sock'[c] = "open"
                /\ enqueued' = enqueued + Len(good)
                /\ started' \o JobIds(processingQueue') =
                      started \o JobIds(processingQueue)
                         \o [i \in 1..Len(good) |-> enqueued + i]
                /\ \A i \in 1..Len(good) :
                      /\ JobById(enqueued + i).socket = c
                      /\ JobById(enqueued + i).requestId =
                            parseMessage(good[i]).message.request_id
                /\ OthersUntouched(c)

C8_FramingErrorIsolation == [][C8_Step]_vars

\* A connection sent a request, text that is not JSON and another request:
\* one ERROR was written, both requests became Jobs, the connection is open.
C8_Witness ==
    \E c \in Conns :
        /\ extracted[c] = <<<<"U", "1">>, <<"2">>, <<"U", "3">>>>
        /\ wire[c] = <<InvalidFormat>>
        /\ sock[c] = "open"
        /\ enqueued = 2
        /\ Len(processingQueue) = 1
        /\ finished = <<>>

\* ---------------------------------------------------------------------
\* Framing (SpecFraming) and the burst (SpecBurst)
\* ---------------------------------------------------------------------
\* The text of everything the client of c has written, and its messages.
StreamText(c) == toString(received[c] \o inflight[c])
Original(c) == Front(Split(StreamText(c)))

\* C9: whatever the chunk boundaries, the messages extracted on a
\* connection are the first PDUs of its stream, one per terminator read, in
\* order and unchanged, and the buffer holds the text read after the last
\* terminator (compared when that text does not stop inside a character).
C9_FramingRoundTrip ==
    \A c \in Conns :
        LET pending == Last(Split(received[c])) IN
        /\ Len(extracted[c]) = Len(Split(received[c])) - 1
        /\ extracted[c] = SubSeq(Original(c), 1, Len(extracted[c]))
        /\ (sock[c] # "destroyed" /\ (pending = <<>> \/ Last(pending) # "L"))
              => buffer[c] = toString(pending)

\* C3: when the burst is over (every request sent and read, the queue
\* empty, no Job executing, no re-check pending), every connection of the
\* burst has received a response.
BurstOver ==
    /\ sends = BurstSize
    /\ \A c \in BurstConns : inflight[c] = <<>>
    /\ processingQueue = <<>>
    /\ workers = {}
    /\ immediates = 0

C3_BurstAbsorption ==
    BurstOver => \A c \in BurstConns : wire[c] # <<>>

\* ---------------------------------------------------------------------
\* Connections that close (SpecLife)
\* ---------------------------------------------------------------------
Closed(c) == sock[c] \in {"ended", "destroyed"}

\* C11: when a Job ends and its connection has been closed (by the client,
\* by the idle timer or by the server's own close), no write is attempted
\* on the connection, in this step or later; the dispatcher is Idle again
\* with its re-check scheduled.
C11_Step ==
    (Finishing /\ Closed(FinishedWorker.job.socket)) =>
        /\ wire' = wire
        /\ writeFailed' = writeFailed
        /\ isProcessing' = FALSE
        /\ immediates' = immediates + 1

C11_ResponseSuppression == [][C11_Step]_vars

\* C12: a step that closes a connection outside its 'data' handler leaves
\* the queue, the executing Job, the dispatcher state and the audit log as
\* they are; a Job whose connection is closed goes through the same steps
\* as any other (the handler's result decides between the audit write and
\* the end of the Job, the sink stores its record, the Job counts as
\* processed or failed by its outcome), and nothing reaches the connection.
Closing(c) ==
    /\ sock'[c] # sock[c]
    /\ sock'[c] \in {"ended", "destroyed"}
    /\ received'[c] = received[c]

C12_CloseStep ==
    \A c \in Conns :
        Closing(c) =>
            /\ processingQueue' = processingQueue
            /\ workers' = workers
            /\ isProcessing' = isProcessing
            /\ started' = started
            /\ finished' = finished
            /\ auditLog' = auditLog
            /\ stats' = stats

C12_JobStep ==
    \A w \in workers :
        (Closed(w.job.socket) /\ w \notin workers') =>
            LET outcome == executeMethod(w.job.method, w.job.payload) IN
            /\ wire'[w.job.socket] = wire[w.job.socket]
            /\ IF w.pc = "latency" /\ outcome.kind = "await"
               THEN /\ workers' = (workers \ {w}) \cup {[w EXCEPT !.pc = "audit"]}
                    /\ finished' = finished
               ELSE /\ finished' = Append(finished, w.job.id)
                    /\ isProcessing' = FALSE
                    /\ stats'.totalProcessed =
                          stats.totalProcessed + (IF outcome.kind = "throw" THEN 0 ELSE 1)
                    /\ stats'.totalErrors =
                          stats.totalErrors + (IF outcome.kind = "throw" THEN 1 ELSE 0)

C12_NoCancellation == [][C12_CloseStep /\ C12_JobStep]_vars

\* Two uploads were queued on a connection that was destroyed before the
\* first of them had run its handler: both were executed and audited, both
\* count as processed, and nothing was written.
C12_Witness ==
    \E c \in Conns :
        /\ sock[c] = "destroyed"
        /\ sentTo = <<c, c>>
        /\ finished = <<1, 2>>
        /\ Len(auditLog) = 2
        /\ stats.totalProcessed = 2
        /\ wire[c] = <<>>
        /\ writeFailed[c] = 0

\* ---------------------------------------------------------------------
\* The stub's calls (SpecStub, SpecStubFair)
\* ---------------------------------------------------------------------
TimedOut(c) ==
    /\ stub[c].state = "pending"
    /\ stub'[c].state = "rejected"
    /\ stub'[c].error = "RPC server timeout"

\* C13: the step in which a call times out destroys the call's own socket
\* and rejects the call, and changes nothing on the server: queue,
\* executing Job, dispatcher state, pending re-checks, counters and the
\* other connections stay as they are; every Job taken from the queue is
\* executing or has ended, whether or not its caller still waits.
C13_Step ==
    \A c \in Conns :
        TimedOut(c) =>
            /\ sock'[c] = "destroyed"
            /\ processingQueue' = processingQueue
            /\ workers' = workers
            /\ isProcessing' = isProcessing
            /\ immediates' = immediates
            /\ started' = started
            /\ finished' = finished
            /\ stats' = stats
            /\ OthersUntouched(c)

C13_Served ==
    \A i \in DOMAIN started :
        \/ \E w \in workers : w.job.id = started[i]
        \/ \E j \in DOMAIN finished : finished[j] = started[i]

C13_CallerTimeoutLocal == []C13_Served /\ [][C13_Step]_vars

\* A call timed out while its upload was queued or executing; the upload
\* was executed and audited all the same.
C13_Witness ==
    \E c \in Conns :
        /\ stub[c].state = "rejected"
        /\ stub[c].error = "RPC server timeout"
        /\ sentTo = <<c>>
        /\ finished = <<1>>
        /\ Len(auditLog) = 1
        /\ wire[c] = <<>>

\* C14: every call that is pending is eventually resolved or rejected.
C14_CallSettles ==
    \A c \in Conns :
        (stub[c].state = "pending") ~> (stub[c].state \in {"resolved", "rejected"})

\* ---------------------------------------------------------------------
\* The dispatcher's wake-ups (SpecFair)
\* ---------------------------------------------------------------------
\* C15: the end of every Job schedules a re-check, whatever the queue held
\* when the Job was taken; whenever Jobs wait while the dispatcher is Idle
\* a re-check is pending; and every Job that was enqueued is eventually
\* executed to its end, without any further enqueue.
C15_Recheck ==
    (~isProcessing /\ processingQueue # <<>>) => immediates > 0

C15_Step == Finishing => immediates' = immediates + 1

C15_Drained ==
    \A id \in 1..MaxSends :
        (enqueued >= id) ~> (\E i \in DOMAIN finished : finished[i] = id)

C15_NoLostWakeup == []C15_Recheck /\ [][C15_Step]_vars /\ C15_Drained

\* A Job ended while another one, enqueued during its execution, waits:
\* the dispatcher is Idle and the re-check is pending.
C15_Witness ==
    /\ ~isProcessing
    /\ Len(processingQueue) >= 1
    /\ Len(finished) >= 1
    /\ immediates >= 1

\* ---------------------------------------------------------------------
\* Handlers that fail (SpecHandlers)
\* ---------------------------------------------------------------------
\* C16: the Job of a registered method whose handler throws ends with
\* exactly one ERROR response on its connection, carrying the error's
\* message and the Job's request_id; it counts as an error, the connection
\* and every other connection stay as they were, the queue is untouched and
\* the dispatcher is Idle with its re-check scheduled.
HandlerFails(job) ==
    /\ job.method \in RegisteredMethods
    /\ executeMethod(job.method, job.payload).kind = "throw"

C16_Step ==
    (Finishing /\ HandlerFails(FinishedWorker.job)) =>
        LET job == FinishedWorker.job
            c == job.socket
        IN  /\ wire'[c] = Append(wire[c],
                    createResponse("ERROR",
                        executeMethod(job.method, job.payload).result,
                        job.requestId))
            /\ Last(wire'[c]).result.message # ""
            /\ sock' = sock
            /\ sock[c] = "open"
            /\ stats'.totalErrors = stats.totalErrors + 1
            /\ stats'.totalProcessed = stats.totalProcessed
            /\ isProcessing' = FALSE
            /\ immediates' = immediates + 1
            /\ processingQueue' = processingQueue
            /\ OthersUntouched(c)

C16_HandlerError == [][C16_Step]_vars

\* An upload without body was answered ERROR with the handler's message,
\* and the upload queued behind it on the same connection was answered OK.
C16_Witness ==
    \E c \in Conns :
        /\ sock[c] = "open"
        /\ sentTo = <<c, c>>
        /\ Len(wire[c]) = 2
        /\ wire[c][1] = createResponse("ERROR",
                            Result("Cannot read properties of undefined", "filename", 0),
                            Decimal(1))
        /\ wire[c][2].status = "OK"
        /\ wire[c][2].request_id = Decimal(2)
        /\ stats = [totalProcessed |-> 1, totalErrors |-> 1]

\* ---------------------------------------------------------------------
\* Socket errors (SpecLifeFair)
\* ---------------------------------------------------------------------
\* C17: a step that destroys a connection outside its 'data' handler (a
\* socket error, a disconnect) closes that connection only: the sockets,
\* buffers and responses of the others, the queue with its order, the
\* executing Job and the dispatcher state are unchanged.  The listener
\* accepts every connection that has not been accepted yet, and every Job
\* that was enqueued is eventually executed to its end; a Job that ends on
\* an open connection is answered there.
Destroyed(c) ==
    /\ sock[c] # "destroyed"
    /\ sock'[c] = "destroyed"
    /\ received'[c] = received[c]

C17_Step ==
    /\ \A c \in Conns :
          Destroyed(c) =>
              /\ OthersUntouched(c)
              /\ processingQueue' = processingQueue
              /\ workers' = workers
              /\ isProcessing' = isProcessing
              /\ immediates' = immediates
              /\ stats' = stats
    /\ (Finishing /\ sock[FinishedWorker.job.socket] = "open") =>
          LET c == FinishedWorker.job.socket IN
          /\ Len(wire'[c]) = Len(wire[c]) + 1
          /\ Last(wire'[c]).request_id = FinishedWorker.job.requestId

C17_Listening ==
    \A c \in Conns : sock[c] = "none" => ENABLED Connect(c)

C17_Executed ==
    \A id \in 1..MaxSends :
        (enqueued >= id) ~> (\E i \in DOMAIN finished : finished[i] = id)

C17_TransportErrorIsolation ==
    []C17_Listening /\ [][C17_Step]_vars /\ C17_Executed

\* Connection 1 was destroyed with its upload unanswered; the upload that
\* connection 2 had sent behind it was executed after it and answered OK,
\* and connection 2 is open.
C17_Witness ==
    /\ sock[1] = "destroyed"
    /\ wire[1] = <<>>
    /\ sentTo = <<1, 2>>
    /\ finished = <<1, 2>>
    /\ sock[2] = "open"
    /\ Len(wire[2]) = 1
    /\ wire[2][1].status = "OK"
    /\ wire[2][1].request_id = Decimal(2)

\* ---------------------------------------------------------------------
\* Job conservation (Spec)
\* ---------------------------------------------------------------------
\* C18: the Jobs created so far are, in creation order, the Jobs dequeued
\* so far followed by the Jobs in the queue: none is duplicated, none has
\* left the queue otherwise; every dequeued Job is executing or has ended,
\* never both and never twice.  A chunk creates one Job per admitted PDU,
\* whatever the queue length and the dispatcher state, and no other step
\* creates Jobs.
C18_Conserved ==
    /\ started \o [i \in DOMAIN processingQueue |-> processingQueue[i].id]
          = [i \in 1..enqueued |-> i]
    /\ \A i \in DOMAIN started :
          Cardinality({w \in workers : w.job.id = started[i]})
             + Cardinality({j \in DOMAIN finished : finished[j] = started[i]}) = 1
    /\ \A j \in DOMAIN finished : \E i \in DOMAIN started : started[i] = finished[j]

C18_Step ==
    /\ \A c \in Conns :
          DataStep(c) =>
              LET msgs == ChunkMessages(c)
                  k == FirstRejected(msgs)
                  upto == IF k = 0 THEN msgs ELSE SubSeq(msgs, 1, k - 1)
              IN  Len(processingQueue') + Len(started') =
                     Len(processingQueue) + Len(started)
                        + Len(SelectSeq(upto, Admissible))
    /\ (\A c \in Conns : ~DataStep(c)) => enqueued' = enqueued

C18_JobConservation == []C18_Conserved /\ [][C18_Step]_vars

\* Three PDUs of one connection became three Jobs; all three have been
\* executed in order and answered.
C18_Witness ==
    /\ enqueued = 3
    /\ started = <<1, 2, 3>>
    /\ finished = <<1, 2, 3>>
    /\ \E c \in Conns : Len(extracted[c]) = 3 /\ Len(wire[c]) = 3

\* ---------------------------------------------------------------------
\* Blank frames (SpecFrames)
\* ---------------------------------------------------------------------
\* C19: a chunk whose messages are all empty or whitespace-only creates no
\* Job, writes no response, counts no error and leaves queue, dispatcher
\* and connection state unchanged; in any chunk the blank messages make no
\* difference: the handler leaves the state it would leave for the same
\* messages without the blank ones.
NotBlank(m) == Trim(m) # <<>>

C19_Step ==
    \A c \in Conns :
        DataStep(c) =>
            LET msgs == ChunkMessages(c)
                st == HandleMessages(c, SelectSeq(msgs, NotBlank), Snapshot(c))
            IN  /\ wire'[c] = st.wire
                /\ sock'[c] = st.sock
                /\ processingQueue' = st.queue
                /\ workers' = st.workers
                /\ isProcessing' = st.busy
                /\ enqueued' = st.enqueued
                /\ stats'.totalErrors = st.errors
                /\ (\A i \in DOMAIN msgs : ~NotBlank(msgs[i])) =>
                      /\ wire' = wire
                      /\ sock' = sock
                      /\ writeFailed' = writeFailed
                      /\ processingQueue' = processingQueue
                      /\ workers' = workers
                      /\ isProcessing' = isProcessing
                      /\ enqueued' = enqueued
                      /\ started' = started
                      /\ stats' = stats

C19_BlankFramesDropped == [][C19_Step]_vars

\* A connection sent an empty frame, a whitespace-only frame and an upload:
\* the upload is the only Job, it was answered OK, and no error was counted.
C19_Witness ==
    \E c \in Conns :
        /\ extracted[c] = <<<<>>, <<"SP">>, <<"U", "3">>>>
        /\ enqueued = 1
        /\ sock[c] = "open"
        /\ Len(wire[c]) = 1
        /\ wire[c][1].status = "OK"
        /\ wire[c][1].request_id = Decimal(3)
        /\ stats = [totalProcessed |-> 1, totalErrors |-> 0]

\* ---------------------------------------------------------------------
\* The idle timer (SpecIdle)
\* ---------------------------------------------------------------------
\* C20: the idle timer of a connection is armed once, at accept: it stays
\* due IDLE_TIMEOUT_MS after the accept whatever chunks arrive, and no
\* connection is open later than that.
C20_IdleTimer ==
    \A c \in Conns :
        /\ sock[c] # "none" =>
              idle[c].due = idle[c].acceptedAt + IDLE_TIMEOUT_MS
        /\ sock[c] = "open" =>
              now <= idle[c].acceptedAt + IDLE_TIMEOUT_MS

\* ---------------------------------------------------------------------
\* Audit writes (SpecMethods)
\* ---------------------------------------------------------------------
\* The clients of the registry: one request per registered method.
MethodMenu(n) ==
    {Request("U", n), Request("P", n), Request("F", n), Request("D", n),
     Request("B", n)}

NextMethods ==
    \/ \E c \in Conns : Connect(c)
    \/ \E c \in Conns : \E bytes \in MethodMenu(sends + 1) :
            sends < MaxSends /\ ClientSend(c, bytes)
    \/ Server

SpecMethods == Init /\ [][NextMethods]_vars

AuditFree == {"PING", "LIST_FILES", "DELETE_FILE", "CHECK_BALANCE"}

\* C21: a Job is at its audit write only inside its execution window (it is
\* the Job dequeued last, the dispatcher is Busy, and every Job dequeued
\* before it has ended, response included); a Job of PING, LIST_FILES,
\* DELETE_FILE or CHECK_BALANCE is never at an audit write; the audit log
\* holds at most one record per Job, in execution order.  A Job enters its
\* audit write once, from the end of its latency wait, and the step that
\* settles the write ends the Job.
C21_Window ==
    /\ \A w \in workers :
          w.pc = "audit" =>
              /\ w.job.method \notin AuditFree
              /\ isProcessing
              /\ workers = {w}
              /\ w.job.id = Last(started)
              /\ \A i \in 1..(Len(started) - 1) :
                    \E j \in DOMAIN finished : finished[j] = started[i]
              /\ \A j \in DOMAIN finished : finished[j] # w.job.id
              /\ \A i \in DOMAIN auditLog : auditLog[i].job < w.job.id
    /\ \A i, j \in DOMAIN auditLog : i < j => auditLog[i].job < auditLog[j].job
    /\ \A i \in DOMAIN auditLog :
          \E j \in DOMAIN finished : finished[j] = auditLog[i].job

C21_Step ==
    /\ \A w \in workers' :
          (w.pc = "audit" /\ w \notin workers) =>
              /\ [w EXCEPT !.pc = "latency"] \in workers
              /\ finished' = finished
              /\ wire' = wire
    /\ \A w \in workers :
          (w.pc = "audit" /\ w \notin workers') =>
              /\ finished' = Append(finished, w.job.id)
              /\ auditLog' \in {auditLog,
                                Append(auditLog, [job |-> w.job.id,
                                                  filename |-> w.job.payload.filename])}
    /\ (\A w \in workers : w.pc # "audit") => auditLog' = auditLog
    /\ (Finishing /\ FinishedWorker.job.method \in AuditFree) =>
          /\ FinishedWorker.pc = "latency"
          /\ auditLog' = auditLog

C21_AuditPerJob == []C21_Window /\ [][C21_Step]_vars

\* Three Jobs were executed, an upload, a ping and an upload: the sink
\* holds the records of the two uploads, in that order, and the second
\* upload was audited after the ping had been answered.
C21_Witness ==
    /\ finished = <<1, 2, 3>>
    /\ Len(auditLog) = 2
    /\ auditLog[1].job = 1
    /\ auditLog[2].job = 3
    /\ \E c \in Conns : \E i \in DOMAIN wire[c] :
          wire[c][i].request_id = Decimal(2) /\ wire[c][i].result.name = "PING"

\* ---------------------------------------------------------------------
\* The codec (SpecCodec)
\* ---------------------------------------------------------------------
\* The strings a field of a message may hold: every string of at most
\* MaxStringLen characters, newlines and backslashes included.
CodecChars == {"1", "n", "E", "NL", "BS"}
CodecStrings ==
    UNION {[1..len -> CodecChars] : len \in 0..MaxStringLen}

\* The clients of the codec: requests whose request_id holds a newline, a
\* backslash followed by n, a two-byte character.
CodecMenu(n) ==
    {createMessage("P", Decimal(n) \o <<"NL">>),
     createMessage("U", Decimal(n) \o <<"BS", "n">>),
     createMessage("N", <<"NL", "E">> \o Decimal(n))}

NextCodec ==
    \/ \E c \in Conns : Connect(c)
    \/ \E c \in Conns : \E bytes \in CodecMenu(sends + 1) :
            sends < MaxSends /\ ClientSend(c, bytes)
    \/ Server

SpecCodec == Init /\ [][NextCodec]_vars

\* The text ends with a newline and holds no other.
Terminated(text) ==
    /\ text # <<>>
    /\ Last(text) = "NL"
    /\ \A i \in 1..(Len(text) - 1) : text[i] # "NL"

\* C22: createMessage and createResponse return a text that ends with
\* exactly one newline and holds no other, whatever the strings of the
\* message hold; splitting the text at newlines gives one frame (and the
\* empty rest), and parsing the frame gives the message back.  On every
\* connection the stream the client wrote holds one frame per request
\* sent, and every response the server wrote encodes and parses back so.
C22_Requests ==
    \A k \in KindChars : \A rid \in CodecStrings :
        LET text == createMessage(k, rid)
            pieces == Split(toString(text))
        IN  /\ Terminated(text)
            /\ Len(pieces) = 2
            /\ pieces[2] = <<>>
            /\ parseMessage(pieces[1]) = [ok |-> TRUE, message |-> Pdu(k, rid)]

C22_Stream ==
    \A c \in Conns :
        LET pieces == Split(toString(received[c] \o inflight[c]))
        IN  /\ Len(pieces) = 1 + Cardinality({n \in 1..sends : sentTo[n] = c})
            /\ Last(pieces) = <<>>
            /\ \A i \in 1..(Len(pieces) - 1) : parseMessage(pieces[i]).ok

C22_Responses ==
    \A c \in Conns : \A i \in DOMAIN wire[c] :
        LET text == ResponseText(wire[c][i])
            pieces == Split(toString(text))
        IN  /\ Terminated(text)
            /\ Len(pieces) = 2
            /\ pieces[2] = <<>>
            /\ parseResponse(pieces[1]) = [ok |-> TRUE, response |-> wire[c][i]]

C22_OneTerminator == C22_Requests /\ C22_Stream /\ C22_Responses

\* A connection sent a ping whose request_id ends with a newline and an
\* upload whose request_id ends with a backslash and an n: two frames were
\* split off, and both were answered with their request_id.
C22_Witness ==
    \E c \in Conns :
        /\ extracted[c] = <<<<"P", "1", "BS", "n">>, <<"U", "2", "BS", "BS", "n">>>>
        /\ Len(wire[c]) = 2
        /\ wire[c][1].request_id = <<"1", "NL">>
        /\ wire[c][2].request_id = <<"2", "BS", "n">>

\* ---------------------------------------------------------------------
\* Enqueue and the dispatcher's states (Spec, SpecFair)
\* ---------------------------------------------------------------------
\* C23: a chunk handled while a Job is executing (the dispatcher suspended
\* at the latency wait or at the audit write) appends its Jobs at the tail
\* of the queue, in order, with its connection as their socket, and changes
\* nothing else of the dispatcher: the executing Job and its position, the
\* busy flag, the Jobs already queued and their order, the dequeue history,
\* the counters of processed Jobs, the pending re-checks and every other
\* connection are as before; nothing is dequeued.
C23_Step ==
    \A c \in Conns :
        (DataStep(c) /\ isProcessing) =>
            LET old == Len(processingQueue)
                new == enqueued' - enqueued
            IN  /\ workers' = workers
                /\ workers # {}
                /\ isProcessing'
                /\ started' = started
                /\ finished' = finished
                /\ immediates' = immediates
                /\ stats'.totalProcessed = stats.totalProcessed
                /\ auditLog' = auditLog
                /\ new >= 0
                /\ Len(processingQueue') = old + new
                /\ SubSeq(processingQueue', 1, old) = processingQueue
                /\ \A i \in 1..new :
                      /\ processingQueue'[old + i].id = enqueued + i
                      /\ processingQueue'[old + i].socket = c
                /\ OthersUntouched(c)

C23_EnqueueWhileBusy == [][C23_Step]_vars

\* While the Job of one connection is at its audit write, a Job of the
\* other connection and then a Job of the first one were enqueued behind it.
C23_Witness ==
    /\ \E w \in workers : w.pc = "audit" /\ w.job.id = 1 /\ w.job.socket = 1
    /\ Len(processingQueue) = 2
    /\ processingQueue[1].id = 2 /\ processingQueue[1].socket = 2
    /\ processingQueue[2].id = 3 /\ processingQueue[2].socket = 1

\* C24: a processQueue call made while the dispatcher is Idle and the queue
\* is empty (the scheduled re-check; the call of an enqueue finds its own
\* Job in the queue) changes nothing: the busy flag stays false, the queue
\* empty, counters, histories and connections as they were, and no further
\* re-check is scheduled.  From Idle with an empty queue the dispatcher
\* becomes Busy only in a step that enqueues.
C24_Step ==
    /\ (immediates' # immediates /\ processingQueue = <<>> /\ ~isProcessing) =>
          /\ immediates' = immediates - 1
          /\ UNCHANGED <<processingQueue, isProcessing, stats, workers, buffer,
                         sock, wire, writeFailed, inflight, received, extracted,
                         sends, sentTo, enqueued, started, finished, auditLog,
                         now, clientDue, idle, stub>>
    /\ (processingQueue = <<>> /\ ~isProcessing /\ isProcessing') =>
          /\ \E c \in Conns : DataStep(c)
          /\ enqueued' > enqueued

C24_IdleNoOp == [][C24_Step]_vars

\* The only Job has ended and its re-check has run on the empty queue: the
\* dispatcher is Idle, nothing is queued and no re-check is pending.
C24_Witness ==
    /\ enqueued = 1
    /\ finished = <<1>>
    /\ processingQueue = <<>>
    /\ ~isProcessing
    /\ workers = {}
    /\ immediates = 0

\* ---------------------------------------------------------------------
\* After an authentication failure (SpecAuth)
\* ---------------------------------------------------------------------
\* The server has answered "Unauthorized" on the connection.
WasRejected(c) ==
    \E i \in DOMAIN wire[c] : wire[c][i].result.message = "Unauthorized"

\* C25: once a frame of a connection has been rejected for authentication,
\* no Job of that connection is created any more: not from the frames that
\* follow the rejected one in its chunk, and not from a chunk that arrives
\* on the connection afterwards, whatever token its frames carry.
C25_Step ==
    \A c \in Conns :
        LET msgs == ChunkMessages(c)
            k == FirstRejected(msgs)
            upto == IF k = 0 THEN msgs ELSE SubSeq(msgs, 1, k - 1)
        IN  /\ (DataStep(c) /\ ~WasRejected(c)) =>
                  enqueued' = enqueued + Len(SelectSeq(upto, Admissible))
            /\ (DataStep(c) /\ WasRejected(c)) =>
                  /\ enqueued' = enqueued
                  /\ processingQueue' = processingQueue
                  /\ workers' = workers

C25_DeadAfterRejection == [][C25_Step]_vars

\* C26: a chunk on an open connection whose first rejected frame is fk: the
\* admissible frames before fk become Jobs behind the Jobs already queued
\* and every Job enqueued is eventually executed to its end; the connection
\* gets one ERROR "Invalid message format" per malformed frame before fk
\* and then the single ERROR "Unauthorized" for fk; the frames after fk
\* leave no trace: no response, no error counted, no Job.
C26_Step ==
    \A c \in Conns :
        LET msgs == ChunkMessages(c)
            k == FirstRejected(msgs)
            before == SubSeq(msgs, 1, k - 1)
            bad == SelectSeq(before, Malformed)
            good == SelectSeq(before, Admissible)
        IN  (DataStep(c) /\ sock[c] = "open" /\ k > 0) =>
                /\ wire'[c] =
                      wire[c] \o [i \in 1..Len(bad) |-> InvalidFormat]
                         \o <<createResponse("ERROR", Result("Unauthorized", "", 0),
                                             parseMessage(msgs[k]).message.request_id)>>
                /\ writeFailed'[c] = writeFailed[c]
                /\ stats'.totalErrors = stats.totalErrors + Len(bad)
                /\ enqueued' = enqueued + Len(good)
                /\ started' \o JobIds(processingQueue') =
                      started \o JobIds(processingQueue)
                         \o [i \in 1..Len(good) |-> enqueued + i]
                /\ \A i \in 1..Len(good) :
                      /\ JobById(enqueued + i).socket = c
                      /\ JobById(enqueued + i).requestId =
                            parseMessage(good[i]).message.request_id

C26_Executed ==
    \A id \in 1..MaxSends :
        (enqueued >= id) ~> (\E i \in DOMAIN finished : finished[i] = id)

C26_RejectionInChunk == [][C26_Step]_vars /\ C26_Executed

\* A connection sent an upload, a request with a wrong token and another
\* upload; the last two were read in one chunk: the first upload is the only
\* Job and was executed, the rejected request got the only response, the
\* upload behind it left nothing.
C26_Witness ==
    \E c \in Conns :
        /\ extracted[c] = <<<<"U", "1">>, <<"W", "2">>, <<"U", "3">>>>
        /\ enqueued = 1
        /\ finished = <<1>>
        /\ Len(auditLog) = 1
        /\ wire[c] = <<createResponse("ERROR", Result("Unauthorized", "", 0),
                                      Decimal(2))>>
        /\ stats.totalErrors = 0

\* ---------------------------------------------------------------------
\* Responses of the dispatcher (Spec)
\* ---------------------------------------------------------------------
\* A response written by processQueue, not by the 'data' handler.
DispatcherResponse(r) ==
    \/ r.status = "OK"
    \/ r.result.message \notin {"Unauthorized", "Invalid message format"}

\* C27: the step that ends a Job whose connection is open appends exactly
\* one response to that connection, OK with the handler's result when the
\* handler returned and ERROR with its message when it threw, carrying the
\* Job's request_id, and writes nothing anywhere else; no other step writes
\* a response of the dispatcher.  No connection holds two responses of the
\* dispatcher for one request, and every one of them belongs to a Job that
\* has ended.
C27_Step ==
    /\ (Finishing /\ sock[FinishedWorker.job.socket] = "open") =>
          LET job == FinishedWorker.job
              c == job.socket
              outcome == executeMethod(job.method, job.payload)
          IN  /\ wire'[c] =
                    Append(wire[c],
                           createResponse(IF outcome.kind = "throw"
                                          THEN "ERROR" ELSE "OK",
                                          outcome.result, job.requestId))
              /\ writeFailed' = writeFailed
              /\ \A d \in Conns : d # c => wire'[d] = wire[d]
    /\ ~Finishing =>
          \A c \in Conns :
              /\ Len(wire'[c]) >= Len(wire[c])
              /\ SubSeq(wire'[c], 1, Len(wire[c])) = wire[c]
              /\ \A i \in (Len(wire[c]) + 1)..Len(wire'[c]) :
                    ~DispatcherResponse(wire'[c][i])

C27_Once ==
    \A c \in Conns : \A i \in DOMAIN wire[c] :
        DispatcherResponse(wire[c][i]) =>
            /\ \A j \in DOMAIN wire[c] :
                  (DispatcherResponse(wire[c][j])
                      /\ wire[c][j].request_id = wire[c][i].request_id) => j = i
            /\ \E n \in 1..sends :
                  /\ wire[c][i].request_id = Decimal(n)
                  /\ sentTo[n] = c
            /\ Cardinality({k \in DOMAIN wire[c] : DispatcherResponse(wire[c][k])})
                  <= Len(finished)

C27_OneResponsePerJob == []C27_Once /\ [][C27_Step]_vars

\* Three Jobs of two open connections have ended: connection 1 holds the
\* OK responses of its two requests, connection 2 the ERROR of its request
\* for an unknown method, and nothing else was written.
C27_Witness ==
    /\ sentTo = <<1, 2, 1>>
    /\ finished = <<1, 2, 3>>
    /\ sock[1] = "open" /\ sock[2] = "open"
    /\ Len(wire[1]) = 2
    /\ wire[1][1].status = "OK" /\ wire[1][1].request_id = Decimal(1)
    /\ wire[1][2].status = "OK" /\ wire[1][2].request_id = Decimal(3)
    /\ Len(wire[2]) = 1
    /\ wire[2][1].status = "ERROR" /\ wire[2][1].request_id = Decimal(2)
    /\ wire[2][1].result.message = "Unknown method: "

\* ---------------------------------------------------------------------
\* The dispatcher is never stuck (SpecLife, SpecLifeFair)
\* ---------------------------------------------------------------------
\* C28: whenever Jobs wait in the queue, either the dispatcher is Busy with
\* exactly one Job in flight, suspended at the latency wait or at the audit
\* write, or it is Idle and a re-check of the queue is scheduled; the busy
\* flag is set exactly while a Job is in flight.
C28_Scheduled ==
    /\ processingQueue # <<>> =>
          \/ isProcessing /\ Cardinality(workers) = 1
          \/ ~isProcessing /\ immediates > 0
    /\ isProcessing <=> workers # {}
    /\ \A w \in workers : w.pc \in {"latency", "audit"}

\* Two Jobs wait for a connection that has been destroyed; the Job before
\* them has ended, the dispatcher is Idle and its re-check is scheduled.
C28_Witness ==
    /\ ~isProcessing
    /\ Len(processingQueue) = 2
    /\ immediates >= 1
    /\ finished = <<1>>
    /\ \A i \in DOMAIN processingQueue :
          sock[processingQueue[i].socket] = "destroyed"

\* C29: the step that ends a Job, whatever its handler did (returned,
\* threw, lost its audit write) and whatever became of its response
\* (written, failed on an ended socket, skipped for a destroyed one), sets
\* the busy flag back to false, schedules a re-check and leaves no Job in
\* flight; a Busy dispatcher is eventually Idle, and every Job dequeued
\* eventually ends.
C29_Step ==
    Finishing =>
        /\ isProcessing
        /\ isProcessing' = FALSE
        /\ immediates' = immediates + 1
        /\ workers' = {}

C29_Released ==
    /\ isProcessing ~> ~isProcessing
    /\ \A id \in 1..MaxSends :
          (\E i \in DOMAIN started : started[i] = id)
             ~> (\E j \in DOMAIN finished : finished[j] = id)

C29_BusyReleased == [][C29_Step]_vars /\ C29_Released

\* Three Jobs have ended and the dispatcher is Idle: the handler of the
\* first threw and its ERROR was written, the response of the second failed
\* on its ended socket, the response of the third was skipped because its
\* socket was destroyed.
C29_Witness ==
    /\ sentTo = <<1, 2, 2>>
    /\ finished = <<1, 2, 3>>
    /\ ~isProcessing
    /\ workers = {}
    /\ stats.totalErrors >= 1
    /\ Len(wire[1]) = 1 /\ wire[1][1].status = "ERROR"
    /\ writeFailed[2] = 1
    /\ wire[2] = <<>>
    /\ sock[2] = "destroyed"

\* ---------------------------------------------------------------------
\* Response order on a connection (Spec)
\* ---------------------------------------------------------------------
\* C30: on every connection the responses of the dispatcher stand in the
\* order in which the frames of their requests arrived (the n-th frame
\* sent carries request_id n, and a connection delivers its frames in the
\* order they were sent); Jobs end in the order they were created, and a
\* Job that ends is older than every Job still waiting.
C30_Ordered ==
    /\ \A c \in Conns : \A i, j \in DOMAIN wire[c] :
          (i < j /\ DispatcherResponse(wire[c][i]) /\ DispatcherResponse(wire[c][j]))
             => ParseDecimal(wire[c][i].request_id)
                   < ParseDecimal(wire[c][j].request_id)
    /\ \A i, j \in DOMAIN finished : i < j => finished[i] < finished[j]

C30_Step ==
    Finishing =>
        \A i \in DOMAIN processingQueue :
            /\ FinishedWorker.job.id < processingQueue[i].id
            /\ processingQueue[i].socket = FinishedWorker.job.socket =>
                  ParseDecimal(FinishedWorker.job.requestId)
                     < ParseDecimal(processingQueue[i].requestId)

C30_ResponseOrder == []C30_Ordered /\ [][C30_Step]_vars

\* Connection 2 sent the first and the third request, connection 1 the
\* second one in between: connection 2 holds the response of the first
\* before the response of the third.
C30_Witness ==
    /\ sentTo = <<2, 1, 2>>
    /\ finished = <<1, 2, 3>>
    /\ Len(wire[2]) = 2
    /\ wire[2][1].request_id = Decimal(1)
    /\ wire[2][2].request_id = Decimal(3)
    /\ Len(wire[1]) = 1
    /\ wire[1][1].request_id = Decimal(2)
    /\ DispatcherResponse(wire[1][1])

\* ---------------------------------------------------------------------
\* One buffer per connection (Spec)
\* ---------------------------------------------------------------------
\* C31: the messages extracted on a connection and the text left in its
\* buffer are those of the bytes read on that connection, however the
\* chunks of the connections interleave; a chunk changes the buffer and the
\* extracted messages of its own connection only, and every Job it creates
\* has that connection as socket and the request_id of one of the messages
\* of that connection.
C31_Own ==
    \A c \in Conns :
        /\ extracted[c] = Front(Split(toString(received[c])))
        /\ buffer[c] = Last(Split(toString(received[c])))

C31_Step ==
    \A c \in Conns :
        DataStep(c) =>
            /\ buffer'[c] = NewBuffer(buffer[c], Chunk(c))
            /\ extracted'[c] = extracted[c] \o NewMessages(buffer[c], Chunk(c))
            /\ \A d \in Conns :
                  d # c => /\ buffer'[d] = buffer[d]
                           /\ extracted'[d] = extracted[d]
                           /\ received'[d] = received[d]
            /\ \A job \in QueuedJobs' \cup ActiveJobs' :
                  job.id > enqueued =>
                      /\ job.socket = c
                      /\ \E i \in DOMAIN extracted'[c] :
                            /\ parseMessage(extracted'[c][i]).ok
                            /\ parseMessage(extracted'[c][i]).message.request_id
                                  = job.requestId

C31_BufferIsolation == []C31_Own /\ [][C31_Step]_vars

\* Both connections hold the beginning of a frame in their buffers at the
\* same time, and connection 1 has had a whole frame extracted before.
C31_Witness ==
    /\ sentTo = <<1, 2, 1>>
    /\ Len(extracted[1]) = 1
    /\ extracted[2] = <<>>
    /\ Len(buffer[1]) = 1
    /\ Len(buffer[2]) = 1
    /\ enqueued = 1

\* ---------------------------------------------------------------------
\* One call, one connection, one answer (SpecStubPeer)
\* ---------------------------------------------------------------------
\* The first line of the bytes written to the socket of c has been read.
LineRead(c) ==
    \E i \in 1..stub[c].read : ResponseBytes(wire[c])[i] = "NL"

\* C32: a call has at most one connection and at most one request frame on
\* it; a call that is settled stays as it is; a chunk that leaves the
\* buffer without newline leaves the call pending; a call resolves only
\* when the bytes read hold a whole line, with the response that this line
\* parses to; and the step that resolves, that rejects for a parse failure
\* or that rejects for the timeout destroys the call's socket.
C32_One ==
    \A c \in Conns :
        /\ Cardinality({n \in 1..sends : sentTo[n] = c}) <= 1
        /\ stub[c].state = "none" => sock[c] = "none"
        /\ stub[c].state = "resolved" =>
              /\ LineRead(c)
              /\ HasLine(stub[c].responseBuffer)
              /\ stub[c].response = wire[c][1]
        /\ (stub[c].state = "pending" /\ sock[c] # "destroyed") =>
              ~HasLine(stub[c].responseBuffer)

C32_Step ==
    \A c \in Conns :
        /\ stub[c].state \in {"resolved", "rejected"} => stub'[c] = stub[c]
        /\ (sock'[c] = "open" /\ sock[c] # "open") => sock[c] = "none"
        /\ (stub[c].state = "pending" /\ stub'[c].state = "resolved") =>
              /\ ~HasLine(stub[c].responseBuffer)
              /\ HasLine(stub'[c].responseBuffer)
              /\ sock'[c] = "destroyed"
              /\ ~stub'[c].timer
        /\ (stub'[c].read > stub[c].read /\ ~HasLine(stub'[c].responseBuffer)) =>
              /\ stub'[c].state = "pending"
              /\ sock'[c] = sock[c]
        /\ (stub[c].state = "pending" /\ stub'[c].state = "rejected"
               /\ stub'[c].error \in {"Failed to parse RPC response",
                                       "RPC server timeout"}) =>
              sock'[c] = "destroyed"

C32_OneShot == []C32_One /\ [][C32_Step]_vars

\* One call has resolved with the server's response and its socket is
\* destroyed; the other has read the beginning of its response and is
\* still pending.
C32_Witness ==
    \E c, d \in Conns :
        /\ stub[c].state = "resolved"
        /\ stub[c].response.status = "OK"
        /\ sock[c] = "destroyed"
        /\ stub[d].state = "pending"
        /\ stub[d].read > 0
        /\ stub[d].read < Len(ResponseBytes(wire[d]))
        /\ wire[d][1].status = "OK"

\* A call was rejected because the line it read did not parse.
C32_ParseFailure ==
    \E c \in Conns :
        /\ stub[c].state = "rejected"
        /\ stub[c].error = "Failed to parse RPC response"
        /\ sock[c] = "destroyed"

\* ---------------------------------------------------------------------
\* What POST returns (SpecStub)
\* ---------------------------------------------------------------------
\* route.ts, POST, lines 48-98: the JSON the handler returns once the call
\* has settled: the response of the server, or status ERROR with the
\* message of the error caught.
PostResult(call) ==
    CASE call.state = "resolved" ->
            [returned |-> TRUE, status |-> call.response.status,
             body |-> call.response, error |-> ""]
      [] call.state = "rejected" ->
            [returned |-> TRUE, status |-> "ERROR",
             body |-> NoResponse, error |-> call.error]
      [] OTHER ->
            [returned |-> FALSE, status |-> "", body |-> NoResponse, error |-> ""]

\* The handlers of the call have had their last word: its timeout is
\* cleared in this step.
LastWord(c) ==
    /\ stub[c].state = "pending"
    /\ stub[c].timer
    /\ ~stub'[c].timer

\* C33: the step in which a call has its last word (its response line has
\* arrived, its timeout fired, its connection failed or was closed) makes
\* POST return: status ERROR with the failure's message when the call
\* failed, the server's response with its status, result and request_id
\* when the server answered.
C33_Step ==
    \A c \in Conns :
        LastWord(c) =>
            /\ PostResult(stub'[c]).returned
            /\ \/ /\ PostResult(stub'[c]).status = "ERROR"
                  /\ PostResult(stub'[c]).error \in
                        {"RPC server timeout", "RPC connection failed",
                         "Connection closed before response received",
                         "Failed to parse RPC response"}
               \/ /\ wire[c] # <<>>
                  /\ PostResult(stub'[c]).body = wire[c][1]

C33_StubReports == [][C33_Step]_vars

\* The calls that do settle report as described: a settled call makes POST
\* return status ERROR with one of the four messages, or the response the
\* server wrote.
C33_SettledStep ==
    \A c \in Conns :
        (stub[c].state = "pending" /\ stub'[c].state # "pending") =>
            /\ PostResult(stub'[c]).returned
            /\ \/ /\ PostResult(stub'[c]).status = "ERROR"
                  /\ PostResult(stub'[c]).error \in
                        {"RPC server timeout", "RPC connection failed",
                         "Connection closed before response received",
                         "Failed to parse RPC response"}
               \/ /\ wire[c] # <<>>
                  /\ PostResult(stub'[c]).body = wire[c][1]

C33_SettledReports == [][C33_SettledStep]_vars

\* ---------------------------------------------------------------------
\* The portal variant of the server (SpecPortal)
\* ---------------------------------------------------------------------
\* server/src/server.js.  Its queue and dispatcher (lines 91-139) and its
\* connection handler (lines 389-498) are, line for line, those of
\* rpc-server/server.js (lines 91-139 and 258-367); the two files differ in
\* executeMethod only.
PortalMethods ==
    RegisteredMethods \cup
        {"MAKE_PAYMENT", "GET_FEES_STATEMENT", "GET_GRADES", "UPLOAD_ASSIGNMENT",
         "GET_TIMETABLE"}

\* A CHECK_BALANCE that reads its payload with optional chaining.
executeMethodLenient(method, payload) ==
    IF method = "CHECK_BALANCE"
    THEN [kind |-> "return", result |-> Result("partial_payment", method, 300000)]
    ELSE executeMethod(method, payload)

\* executeMethod of server/src/server.js, lines 150-362, up to its first
\* await or its end.  UPLOAD_FILE (lines 154-181), LIST_FILES (183-194),
\* DELETE_FILE (196-204) are those of the other file.  CHECK_BALANCE reads
\* payload.student_id at line 213 and returns the fees of the student;
\* MAKE_PAYMENT (line 233) and UPLOAD_ASSIGNMENT (line 307) await an audit
\* write; the statement, the grades and the timetable read
\* payload.student_id and return; PING (347-357) adds the list of services.
executeMethodPortal(method, payload) ==
    IF method \notin PortalMethods
    THEN [kind |-> "throw", result |-> Result("Unknown method: ", method, 0)]
    ELSE IF method \in {"PING", "LIST_FILES"}
    THEN [kind |-> "return",
          result |-> Result(IF method = "PING" THEN "services" ELSE "done", method, 0)]
    ELSE IF ~payload.defined
    THEN [kind |-> "throw",
          result |-> Result("Cannot read properties of undefined",
                            IF method \in {"UPLOAD_FILE", "DELETE_FILE", "UPLOAD_ASSIGNMENT"}
                            THEN "filename"
                            ELSE IF method = "MAKE_PAYMENT" THEN "amount"
                            ELSE "student_id", 0)]
    ELSE IF method = "UPLOAD_FILE"
    THEN [kind |-> "await", result |-> UploadResult(payload)]
    ELSE IF method \in {"MAKE_PAYMENT", "UPLOAD_ASSIGNMENT"}
    THEN [kind |-> "await", result |-> Result("completed", method, 0)]
    ELSE IF method = "CHECK_BALANCE"
    THEN [kind |-> "return", result |-> Result("partial_payment", method, 300000)]
    ELSE [kind |-> "return", result |-> Result("done", method, 0)]

\* The latency timer of line 110 of server/src/server.js fires.
LatencyElapsedPortal(w) ==
    Executed(w, executeMethodPortal(w.job.method, w.job.payload))

\* The clients of the minimum method set: the method with an audit write,
\* the two without payload, and CHECK_BALANCE with and without a body.
PortalMenu(n) ==
    {Request("U", n), Request("P", n), Request("F", n), Request("B", n),
     Request("A", n)}

NextPortal ==
    \/ \E c \in Conns : Connect(c)
    \/ \E c \in Conns : \E bytes \in PortalMenu(sends + 1) :
            sends < MaxSends /\ ClientSend(c, bytes)
    \/ \E c \in Conns : OnData(c, Len(inflight[c]))
    \/ \E w \in workers : LatencyElapsedPortal(w)
    \/ \E w \in workers : \E sinkOk \in BOOLEAN : AuditDone(w, sinkOk)
    \/ RunImmediate
    \/ \E c \in Conns : ClientClose(c)

SpecPortal == Init /\ [][NextPortal]_vars

\* The steps of rpc-server/server.js and of its clients in which no handler
\* starts.
PortalTransport ==
    \/ \E c \in Conns : Connect(c)
    \/ \E c \in Conns : \E bytes \in PortalMenu(sends + 1) : ClientSend(c, bytes)
    \/ \E c \in Conns : \E n \in 1..Len(inflight[c]) : OnData(c, n)
    \/ \E w \in workers : \E sinkOk \in BOOLEAN : AuditDone(w, sinkOk)
    \/ RunImmediate
    \/ \E c \in Conns : ClientClose(c)

\* What rpc-server/server.js does for the Job of w, with the payload of the
\* portal's result in place of its own.
SameButPayload(w) ==
    [executeMethod(w.job.method, w.job.payload) EXCEPT
        !.result = executeMethodPortal(w.job.method, w.job.payload).result]

\* C34: every step of the portal variant is the step rpc-server/server.js
\* takes from the same state for the same event: enqueues, dequeues,
\* closes and responses are the same, with the same status and request_id;
\* where a handler runs, both handlers end the same way (return, throw or
\* audit write) and the step differs by the payload of the result only.
C34_Step ==
    /\ (\E w \in workers : LatencyElapsedPortal(w)) =>
            \E w \in workers :
                /\ w.pc = "latency"
                /\ executeMethodPortal(w.job.method, w.job.payload).kind =
                        executeMethod(w.job.method, w.job.payload).kind
                /\ Executed(w, SameButPayload(w))
    /\ ~(\E w \in workers : LatencyElapsedPortal(w)) => PortalTransport

CounterMenu(n) == {Request("U", n), Request("N", n), NotJson(n)}

NextCounters ==
    \/ \E c \in Conns : Connect(c)
    \/ \E c \in Conns : \E bytes \in CounterMenu(sends + 1) :
            sends < MaxSends /\ ClientSend(c, bytes)
    \/ \E c \in Conns : OnData(c, Len(inflight[c]))
    \/ \E w \in workers : LatencyElapsed(w)
    \/ \E w \in workers : \E sinkOk \in BOOLEAN : AuditDone(w, sinkOk)
    \/ RunImmediate
    \/ \E c \in Conns : ClientClose(c)

SpecCounters == Init /\ [][NextCounters]_vars

\* The handler of the Job succeeds: executeMethod does not throw (a failed
\* audit write is caught inside it).
HandlerSucceeds(job) == executeMethod(job.method, job.payload).kind # "throw"

\* The Jobs that complete in this step.
Completing == {w \in workers : Len(finished') = Len(finished) + 1
                                /\ Last(finished') = w.job.id}

\* The account of the Jobs: every Job enqueued is waiting, in flight or
\* completed; at most one is in flight; totalProcessed counts completed
\* Jobs, and the completed Jobs it does not count are counted in
\* totalErrors (which counts unparsable frames as well).
C35_Account ==
    /\ Cardinality(workers) \in {0, 1}
    /\ Len(finished) + Len(processingQueue) + Cardinality(workers) = enqueued
    /\ stats.totalProcessed <= Len(finished)
    /\ Len(finished) - stats.totalProcessed <= stats.totalErrors

\* A Job completes at most once per step; totalProcessed grows by one in
\* the step that completes a Job whose handler succeeded, whether or not
\* its response was written, and in no other step.
C35_Step ==
    /\ Len(finished') \in {Len(finished), Len(finished) + 1}
    /\ Cardinality(Completing) = Len(finished') - Len(finished)
    /\ stats'.totalProcessed =
          stats.totalProcessed +
          Cardinality({w \in Completing : HandlerSucceeds(w.job)})
    /\ stats'.totalErrors >=
          stats.totalErrors +
          Cardinality({w \in Completing : ~HandlerSucceeds(w.job)})

\* C35: totalProcessed is the number of completed Jobs whose handler
\* succeeded, counted even when the response was not written; the other
\* completed Jobs are those whose handler failed; completed Jobs, waiting
\* Jobs and the Job in flight (none or one) add up to the Jobs ever
\* enqueued.
C35_Counters == []C35_Account /\ [][C35_Step]_vars

\* Two Jobs completed, one of them successfully and without a response
\* (no OK response was ever written), one with a failed handler, and an
\* unparsable frame was counted as an error too.
C35_Witness ==
    /\ Len(finished) = 2
    /\ stats.totalProcessed = 1
    /\ stats.totalErrors = 2
    /\ \A c \in Conns : \A i \in DOMAIN wire[c] : wire[c][i].status # "OK"

=============================================================================
